---- MODULE Spec2Model ----
(***************************************************************************)
(* Porter stemmer (PorterVanillaPyStemmer) as a state machine.             *)
(*                                                                         *)
(* A Python str is a sequence of one-character strings; indexes keep the   *)
(* source's 0-based convention (word[index] is Ch(word, index)).           *)
(* A stemmer instance is the five fields set by __init__; a call of        *)
(* stem_word walks through the positions of its body (lookup, length       *)
(* filter, the eight steps, case restoration); stem_document and           *)
(* stem_tokens are single actions that call stem_word for every word.      *)
(***************************************************************************)
EXTENDS Integers, Sequences, FiniteSets, TLC

\* -------------------------------------------------------------------------
\* Characters and the str methods the code relies on
\* -------------------------------------------------------------------------
LowerLetters ==
    <<"a","b","c","d","e","f","g","h","i","j","k","l","m",
      "n","o","p","q","r","s","t","u","v","w","x","y","z">>

UpperLetters ==
    <<"A","B","C","D","E","F","G","H","I","J","K","L","M",
      "N","O","P","Q","R","S","T","U","V","W","X","Y","Z">>

LowerSet == {LowerLetters[i] : i \in 1..26}

UpperSet == {UpperLetters[i] : i \in 1..26}

DigitSet == {"0","1","2","3","4","5","6","7","8","9"}

\* U+0130, LATIN CAPITAL LETTER I WITH DOT ABOVE: the one letter whose
\* lower() is not one letter but "i" followed by U+0307, COMBINING DOT ABOVE,
\* which is neither a letter nor a \w character
IDot == "<U+0130>"

DotAbove == "<U+0307>"

\* str.isalpha() / str.isupper() / str.islower() on one character
IsAlphaChar(c) == c \in LowerSet \/ c \in UpperSet \/ c = IDot

IsUpperChar(c) == c \in UpperSet \/ c = IDot

IsLowerChar(c) == c \in LowerSet

UpperToLower ==
    [c \in UpperSet |-> LowerLetters[CHOOSE i \in 1..26 : UpperLetters[i] = c]]

LowerToUpper ==
    [c \in LowerSet |-> UpperLetters[CHOOSE i \in 1..26 : LowerLetters[i] = c]]

\* str.lower() / str.upper() on one character: a string
LowerStr(c) ==
    IF c \in UpperSet THEN <<UpperToLower[c]>>
    ELSE IF c = IDot THEN <<"i", DotAbove>>
    ELSE <<c>>

UpperStr(c) == IF c \in LowerSet THEN <<LowerToUpper[c]>> ELSE <<c>>

\* "".join(parts)
RECURSIVE Concat(_)
Concat(parts) == IF Len(parts) = 0 THEN <<>> ELSE Head(parts) \o Concat(Tail(parts))

\* str.lower() / str.upper() on a string
Lower(w) == Concat([i \in 1..Len(w) |-> LowerStr(w[i])])

Upper(w) == Concat([i \in 1..Len(w) |-> UpperStr(w[i])])

\* str.isalpha(): non-empty and every character a letter
IsAlpha(w) == Len(w) > 0 /\ \A i \in 1..Len(w) : IsAlphaChar(w[i])

\* str.isupper() / str.islower(): at least one cased character and no cased
\* character of the other case
IsUpper(w) ==
    /\ \E i \in 1..Len(w) : IsUpperChar(w[i])
    /\ \A i \in 1..Len(w) : ~IsLowerChar(w[i])

IsLower(w) ==
    /\ \E i \in 1..Len(w) : IsLowerChar(w[i])
    /\ \A i \in 1..Len(w) : ~IsUpperChar(w[i])

\* word[index], 0-based
Ch(word, index) == word[index + 1]

\* word[:-n]
DropLast(word, n) == SubSeq(word, 1, Len(word) - n)

\* word.endswith(suffix)
EndsWith(word, suffix) ==
    /\ Len(suffix) <= Len(word)
    /\ SubSeq(word, Len(word) - Len(suffix) + 1, Len(word)) = suffix

\* -------------------------------------------------------------------------
\* Exceptions: a guard that raises makes its step raise; Raised stands for
\* the exception travelling up to stem_word's handler
\* -------------------------------------------------------------------------
Raised == <<"<exception>">>

\* -------------------------------------------------------------------------
\* Letter classifier
\* -------------------------------------------------------------------------
vowels == {"a","e","i","o","u","A","E","I","O","U"}

\* the validation in front of _is_consonant's body raises
IsConsonantRaises(word, index) ==
    \/ Len(word) = 0
    \/ index < 0
    \/ index >= Len(word)
    \/ ~IsAlpha(word)

\* IsConsonant taking every y for a consonant
IsConsonantYAlways(word, index) == Ch(word, index) \notin vowels

\* IsConsonant with the y rule the other way round: a y is what the letter
\* before it is
RECURSIVE IsConsonantAsDocumented(_, _)
IsConsonantAsDocumented(word, index) ==
    LET character_to_check == Ch(word, index)
    IN  IF character_to_check \in vowels THEN FALSE
        ELSE IF LowerStr(character_to_check) = <<"y">>
             THEN IF index = 0 THEN TRUE
                  ELSE IsConsonantAsDocumented(word, index - 1)
             ELSE TRUE

RECURSIVE IsConsonant(_, _)
IsConsonant(word, index) ==
    LET character_to_check == Ch(word, index)
    IN  IF character_to_check \in vowels THEN FALSE
        ELSE IF LowerStr(character_to_check) = <<"y">>
             THEN IF index = 0 THEN TRUE
                  ELSE ~IsConsonant(word, index - 1)
             ELSE TRUE

\* -------------------------------------------------------------------------
\* Measure and shape predicates
\* -------------------------------------------------------------------------
MeasureRaises(word) == Len(word) > 0 /\ ~IsAlpha(word)

ConsonantVowelPattern(word) ==
    [i \in 1..Len(word) |-> IF IsConsonant(word, i - 1) THEN "c" ELSE "v"]

\* Measure counting the consonants that follow a letter
MeasureCountingConsonants(word) ==
    IF Len(word) = 0 THEN 0
    ELSE LET consonant_vowel_pattern == ConsonantVowelPattern(word)
         IN  Cardinality({pattern_index \in 1..(Len(word) - 1) :
                 consonant_vowel_pattern[pattern_index + 1] = "c"})

Measure(word) ==
    IF Len(word) = 0 THEN 0
    ELSE LET consonant_vowel_pattern == ConsonantVowelPattern(word)
         IN  Cardinality({pattern_index \in 1..(Len(word) - 1) :
                 /\ consonant_vowel_pattern[pattern_index] = "v"
                 /\ consonant_vowel_pattern[pattern_index + 1] = "c"})

\* _contains_vowel handing the stem to _is_consonant's validation even when
\* the stem is empty
ContainsVowelRaisesOnEmpty(word) == Len(word) = 0 \/ ~IsAlpha(word)

\* the first _is_consonant call of the loop validates the whole word
ContainsVowelRaises(word) == Len(word) > 0 /\ ~IsAlpha(word)

ContainsVowel(word) == \E i \in 0..(Len(word) - 1) : ~IsConsonant(word, i)

\* "and" short-circuits: _is_consonant runs only for equal last letters
EndsWithDoubleConsonantRaises(word) ==
    /\ Len(word) >= 2
    /\ Ch(word, Len(word) - 1) = Ch(word, Len(word) - 2)
    /\ ~IsAlpha(word)

EndsWithDoubleConsonant(word) ==
    IF Len(word) < 2 THEN FALSE
    ELSE /\ Ch(word, Len(word) - 1) = Ch(word, Len(word) - 2)
         /\ IsConsonant(word, Len(word) - 1)

EndsCvcRaises(word) == Len(word) >= 3 /\ ~IsAlpha(word)

EndsCvc(word) ==
    IF Len(word) < 3 THEN FALSE
    ELSE IF /\ IsConsonant(word, Len(word) - 3)
            /\ ~IsConsonant(word, Len(word) - 2)
            /\ IsConsonant(word, Len(word) - 1)
         THEN LowerStr(Ch(word, Len(word) - 1)) \notin {<<"w">>, <<"x">>, <<"y">>}
         ELSE FALSE

\* -------------------------------------------------------------------------
\* The eight steps.  Each takes the working buffer and returns the new
\* buffer, or Raised when one of its guards raises.
\* -------------------------------------------------------------------------
\* Step1a whose NLTK_EXTENSIONS branch takes an ies word of any length
Step1aAnyLength(word, mode) ==
    IF EndsWith(word, <<"s","s","e","s">>) THEN DropLast(word, 2)
    ELSE IF mode = "NLTK_EXTENSIONS" /\ EndsWith(word, <<"i","e","s">>)
         THEN DropLast(word, 1)
    ELSE IF EndsWith(word, <<"i","e","s">>) THEN DropLast(word, 2)
    ELSE IF EndsWith(word, <<"s","s">>) THEN word
    ELSE IF EndsWith(word, <<"s">>) THEN DropLast(word, 1)
    ELSE word

\* Step1a without the ss rule: a word in ss falls through to the s rule
Step1aWithoutSs(word, mode) ==
    IF EndsWith(word, <<"s","s","e","s">>) THEN DropLast(word, 2)
    ELSE IF /\ mode = "NLTK_EXTENSIONS"
            /\ EndsWith(word, <<"i","e","s">>)
            /\ Len(word) = 4
         THEN DropLast(word, 1)
    ELSE IF EndsWith(word, <<"i","e","s">>) THEN DropLast(word, 2)
    ELSE IF EndsWith(word, <<"s">>) THEN DropLast(word, 1)
    ELSE word

Step1a(word, mode) ==
    IF EndsWith(word, <<"s","s","e","s">>) THEN DropLast(word, 2)
    ELSE IF /\ mode = "NLTK_EXTENSIONS"
            /\ EndsWith(word, <<"i","e","s">>)
            /\ Len(word) = 4
         THEN DropLast(word, 1)
    ELSE IF EndsWith(word, <<"i","e","s">>) THEN DropLast(word, 2)
    ELSE IF EndsWith(word, <<"s","s">>) THEN word
    ELSE IF EndsWith(word, <<"s">>) THEN DropLast(word, 1)
    ELSE word

\* Step1bPostfix undoubling l, s and z as well
Step1bPostfixUndoublingAll(word) ==
    IF EndsWith(word, <<"a","t">>) THEN word \o <<"e">>
    ELSE IF EndsWith(word, <<"b","l">>) THEN word \o <<"e">>
    ELSE IF EndsWith(word, <<"i","z">>) THEN word \o <<"e">>
    ELSE IF EndsWithDoubleConsonantRaises(word) THEN Raised
    ELSE IF EndsWithDoubleConsonant(word) THEN DropLast(word, 1)
    ELSE IF MeasureRaises(word) THEN Raised
    ELSE IF Measure(word) = 1
         THEN IF EndsCvcRaises(word) THEN Raised
              ELSE IF EndsCvc(word) THEN word \o <<"e">> ELSE word
    ELSE word

\* the additional rules applied once ED or ING was removed (flag = True)
Step1bPostfix(word) ==
    IF EndsWith(word, <<"a","t">>) THEN word \o <<"e">>
    ELSE IF EndsWith(word, <<"b","l">>) THEN word \o <<"e">>
    ELSE IF EndsWith(word, <<"i","z">>) THEN word \o <<"e">>
    ELSE IF EndsWithDoubleConsonantRaises(word) THEN Raised
    ELSE IF EndsWithDoubleConsonant(word)
         THEN IF LowerStr(Ch(word, Len(word) - 1)) \notin {<<"l">>, <<"s">>, <<"z">>}
              THEN DropLast(word, 1)
              ELSE word
    ELSE IF MeasureRaises(word) THEN Raised
    ELSE IF Measure(word) = 1
         THEN IF EndsCvcRaises(word) THEN Raised
              ELSE IF EndsCvc(word) THEN word \o <<"e">> ELSE word
    ELSE word

\* Step1b in which a word in eed whose guard fails goes on to the ed rule
Step1bEedFallingThrough(word) ==
    IF /\ EndsWith(word, <<"e","e","d">>)
       /\ MeasureRaises(DropLast(word, 3))
    THEN Raised
    ELSE IF /\ EndsWith(word, <<"e","e","d">>)
            /\ Measure(DropLast(word, 3)) > 0
    THEN DropLast(word, 3) \o <<"e","e">>
    ELSE IF EndsWith(word, <<"e","d">>)
    THEN LET stem == DropLast(word, 2)
         IN  IF ContainsVowelRaises(stem) THEN Raised
             ELSE IF ContainsVowel(stem) THEN Step1bPostfix(stem)
             ELSE word
    ELSE IF EndsWith(word, <<"i","n","g">>)
    THEN LET stem == DropLast(word, 3)
         IN  IF ContainsVowelRaises(stem) THEN Raised
             ELSE IF ContainsVowel(stem) THEN Step1bPostfix(stem)
             ELSE word
    ELSE word

Step1b(word) ==
    IF EndsWith(word, <<"e","e","d">>)
    THEN LET stem == DropLast(word, 3)
         IN  IF MeasureRaises(stem) THEN Raised
             ELSE IF Measure(stem) > 0 THEN stem \o <<"e","e">>
             ELSE word
    ELSE IF EndsWith(word, <<"e","d">>)
    THEN LET stem == DropLast(word, 2)
         IN  IF ContainsVowelRaises(stem) THEN Raised
             ELSE IF ContainsVowel(stem) THEN Step1bPostfix(stem)
             ELSE word
    ELSE IF EndsWith(word, <<"i","n","g">>)
    THEN LET stem == DropLast(word, 3)
         IN  IF ContainsVowelRaises(stem) THEN Raised
             ELSE IF ContainsVowel(stem) THEN Step1bPostfix(stem)
             ELSE word
    ELSE word

\* Step1c whose NLTK_EXTENSIONS guard accepts a stem of one letter
Step1cShortStems(word, mode) ==
    IF ~EndsWith(word, <<"y">>) THEN word
    ELSE LET stem == DropLast(word, 1)
         IN  IF mode = "NLTK_EXTENSIONS"
             THEN IF Len(stem) > 0
                  THEN IF IsConsonantRaises(stem, Len(stem) - 1) THEN Raised
                       ELSE IF IsConsonant(stem, Len(stem) - 1)
                            THEN stem \o <<"i">>
                            ELSE word
                  ELSE word
             ELSE IF ContainsVowelRaises(stem) THEN Raised
                  ELSE IF ContainsVowel(stem) THEN stem \o <<"i">>
                  ELSE word

Step1c(word, mode) ==
    IF ~EndsWith(word, <<"y">>) THEN word
    ELSE LET stem == DropLast(word, 1)
         IN  IF mode = "NLTK_EXTENSIONS"
             THEN IF Len(stem) > 1
                  THEN IF IsConsonantRaises(stem, Len(stem) - 1) THEN Raised
                       ELSE IF IsConsonant(stem, Len(stem) - 1)
                            THEN stem \o <<"i">>
                            ELSE word
                  ELSE word
             ELSE IF ContainsVowelRaises(stem) THEN Raised
                  ELSE IF ContainsVowel(stem) THEN stem \o <<"i">>
                  ELSE word

\* position (1-based) of the first entry of a suffix list that the word ends
\* with, 0 when the loop runs to its end without a match
FirstMatch(word, suffixes) ==
    IF \E k \in 1..Len(suffixes) : EndsWith(word, suffixes[k])
    THEN CHOOSE k \in 1..Len(suffixes) :
            /\ EndsWith(word, suffixes[k])
            /\ \A j \in 1..(k - 1) : ~EndsWith(word, suffixes[j])
    ELSE 0

\* the loop with the replacement put after the whole word
ApplySuffixMappingsAppending(word, suffix_mappings) ==
    LET k == FirstMatch(word, [n \in 1..Len(suffix_mappings) |-> suffix_mappings[n][1]])
    IN  IF k = 0 THEN word
        ELSE LET suffix == suffix_mappings[k][1]
                 replacement == suffix_mappings[k][2]
                 stem == DropLast(word, Len(suffix))
             IN  IF MeasureRaises(stem) THEN Raised
                 ELSE IF Measure(stem) > 0 THEN word \o replacement
                 ELSE word

\* the loop without its break: a suffix whose guard fails is passed over
\* and the first suffix that matches with m(stem) > 0 decides
ApplySuffixMappingsFirstSuccess(word, suffix_mappings) ==
    LET passing == {n \in 1..Len(suffix_mappings) :
                      /\ EndsWith(word, suffix_mappings[n][1])
                      /\ ~MeasureRaises(DropLast(word, Len(suffix_mappings[n][1])))
                      /\ Measure(DropLast(word, Len(suffix_mappings[n][1]))) > 0}
    IN  IF FirstMatch(word, [n \in 1..Len(suffix_mappings) |-> suffix_mappings[n][1]]) = 0
        THEN word
        ELSE IF MeasureRaises(word) THEN Raised
        ELSE IF passing = {} THEN word
        ELSE LET k == CHOOSE n \in passing : \A j \in passing : n <= j
             IN  DropLast(word, Len(suffix_mappings[k][1])) \o suffix_mappings[k][2]

\* the loop shared by _step2 and _step3: first suffix that matches decides
ApplySuffixMappings(word, suffix_mappings) ==
    LET k == FirstMatch(word, [n \in 1..Len(suffix_mappings) |-> suffix_mappings[n][1]])
    IN  IF k = 0 THEN word
        ELSE LET suffix == suffix_mappings[k][1]
                 replacement == suffix_mappings[k][2]
                 stem == DropLast(word, Len(suffix))
             IN  IF MeasureRaises(stem) THEN Raised
                 ELSE IF Measure(stem) > 0 THEN stem \o replacement
                 ELSE word

\* suffix_mappings without its last row
Step2MappingsWithoutLogi ==
    <<<<<<"a","t","i","o","n","a","l">>, <<"a","t","e">>>>,
      <<<<"t","i","o","n","a","l">>, <<"t","i","o","n">>>>,
      <<<<"e","n","c","i">>, <<"e","n","c","e">>>>,
      <<<<"a","n","c","i">>, <<"a","n","c","e">>>>,
      <<<<"i","z","e","r">>, <<"i","z","e">>>>,
      <<<<"b","l","i">>, <<"b","l","e">>>>,
      <<<<"a","l","l","i">>, <<"a","l">>>>,
      <<<<"e","n","t","l","i">>, <<"e","n","t">>>>,
      <<<<"e","l","i">>, <<"e">>>>,
      <<<<"o","u","s","l","i">>, <<"o","u","s">>>>,
      <<<<"i","z","a","t","i","o","n">>, <<"i","z","e">>>>,
      <<<<"a","t","i","o","n">>, <<"a","t","e">>>>,
      <<<<"a","t","o","r">>, <<"a","t","e">>>>,
      <<<<"a","l","i","s","m">>, <<"a","l">>>>,
      <<<<"i","v","e","n","e","s","s">>, <<"i","v","e">>>>,
      <<<<"f","u","l","n","e","s","s">>, <<"f","u","l">>>>,
      <<<<"o","u","s","n","e","s","s">>, <<"o","u","s">>>>,
      <<<<"a","l","i","t","i">>, <<"a","l">>>>,
      <<<<"i","v","i","t","i">>, <<"i","v","e">>>>,
      <<<<"b","i","l","i","t","i">>, <<"b","l","e">>>>>>

Step2Mappings ==
    <<<<<<"a","t","i","o","n","a","l">>, <<"a","t","e">>>>,
      <<<<"t","i","o","n","a","l">>, <<"t","i","o","n">>>>,
      <<<<"e","n","c","i">>, <<"e","n","c","e">>>>,
      <<<<"a","n","c","i">>, <<"a","n","c","e">>>>,
      <<<<"i","z","e","r">>, <<"i","z","e">>>>,
      <<<<"b","l","i">>, <<"b","l","e">>>>,
      <<<<"a","l","l","i">>, <<"a","l">>>>,
      <<<<"e","n","t","l","i">>, <<"e","n","t">>>>,
      <<<<"e","l","i">>, <<"e">>>>,
      <<<<"o","u","s","l","i">>, <<"o","u","s">>>>,
      <<<<"i","z","a","t","i","o","n">>, <<"i","z","e">>>>,
      <<<<"a","t","i","o","n">>, <<"a","t","e">>>>,
      <<<<"a","t","o","r">>, <<"a","t","e">>>>,
      <<<<"a","l","i","s","m">>, <<"a","l">>>>,
      <<<<"i","v","e","n","e","s","s">>, <<"i","v","e">>>>,
      <<<<"f","u","l","n","e","s","s">>, <<"f","u","l">>>>,
      <<<<"o","u","s","n","e","s","s">>, <<"o","u","s">>>>,
      <<<<"a","l","i","t","i">>, <<"a","l">>>>,
      <<<<"i","v","i","t","i">>, <<"i","v","e">>>>,
      <<<<"b","i","l","i","t","i">>, <<"b","l","e">>>>,
      <<<<"l","o","g","i">>, <<"l","o","g">>>>>>

Step2(word) == ApplySuffixMappings(word, Step2Mappings)

Step3Mappings ==
    <<<<<<"i","c","a","t","e">>, <<"i","c">>>>,
      <<<<"a","t","i","v","e">>, <<>>>>,
      <<<<"a","l","i","z","e">>, <<"a","l">>>>,
      <<<<"i","c","i","t","i">>, <<"i","c">>>>,
      <<<<"i","c","a","l">>, <<"i","c">>>>,
      <<<<"f","u","l">>, <<>>>>,
      <<<<"n","e","s","s">>, <<>>>>>>

Step3(word) == ApplySuffixMappings(word, Step3Mappings)

\* suffixes_to_remove with ent, ment and ement shortest first
Step4SuffixesShortFirst ==
    <<<<"a","l">>,
      <<"a","n","c","e">>,
      <<"e","n","c","e">>,
      <<"e","r">>,
      <<"i","c">>,
      <<"a","b","l","e">>,
      <<"i","b","l","e">>,
      <<"a","n","t">>,
      <<"e","n","t">>,
      <<"m","e","n","t">>,
      <<"e","m","e","n","t">>,
      <<"o","u">>,
      <<"i","s","m">>,
      <<"a","t","e">>,
      <<"i","t","i">>,
      <<"o","u","s">>,
      <<"i","v","e">>,
      <<"i","z","e">>>>

Step4Suffixes ==
    <<<<"a","l">>,
      <<"a","n","c","e">>,
      <<"e","n","c","e">>,
      <<"e","r">>,
      <<"i","c">>,
      <<"a","b","l","e">>,
      <<"i","b","l","e">>,
      <<"a","n","t">>,
      <<"e","m","e","n","t">>,
      <<"m","e","n","t">>,
      <<"e","n","t">>,
      <<"o","u">>,
      <<"i","s","m">>,
      <<"a","t","e">>,
      <<"i","t","i">>,
      <<"o","u","s">>,
      <<"i","v","e">>,
      <<"i","z","e">>>>

\* the scan of suffixes_to_remove that follows the 'ion' special case
Step4Table(word) ==
    LET k == FirstMatch(word, Step4Suffixes)
    IN  IF k = 0 THEN word
        ELSE LET stem == DropLast(word, Len(Step4Suffixes[k]))
             IN  IF MeasureRaises(stem) THEN Raised
                 ELSE IF Measure(stem) > 1 THEN stem
                 ELSE word

\* _step4 without the test of the letter before ion
Step4IonAnyLetter(word) ==
    IF EndsWith(word, <<"i","o","n">>)
    THEN LET stem == DropLast(word, 3)
         IN  IF Len(stem) > 0
             THEN IF MeasureRaises(stem) THEN Raised
                  ELSE IF Measure(stem) > 1 THEN stem
                  ELSE Step4Table(word)
             ELSE Step4Table(word)
    ELSE Step4Table(word)

Step4(word) ==
    IF EndsWith(word, <<"i","o","n">>)
    THEN LET stem == DropLast(word, 3)
         IN  IF Len(stem) > 0 /\ Ch(stem, Len(stem) - 1) \in {"s", "t"}
             THEN IF MeasureRaises(stem) THEN Raised
                  ELSE IF Measure(stem) > 1 THEN stem
                  ELSE Step4Table(word)
             ELSE Step4Table(word)
    ELSE Step4Table(word)

\* _step5a without the *o test: m = 1 is enough to remove the e
Step5aIgnoringCvc(word) ==
    IF EndsWith(word, <<"e">>)
    THEN LET stem == DropLast(word, 1)
         IN  IF MeasureRaises(stem) THEN Raised
             ELSE IF Measure(stem) >= 1 THEN stem
             ELSE word
    ELSE word

Step5a(word) ==
    IF EndsWith(word, <<"e">>)
    THEN LET stem == DropLast(word, 1)
         IN  IF MeasureRaises(stem) THEN Raised
             ELSE LET measure == Measure(stem)
                  IN  IF measure > 1 THEN stem
                      ELSE IF measure = 1
                           THEN IF EndsCvcRaises(stem) THEN Raised
                                ELSE IF ~EndsCvc(stem) THEN stem ELSE word
                      ELSE word
    ELSE word

\* _step5b with its guard on the word without both l's
Step5bMeasuringStem(word) ==
    IF EndsWith(word, <<"l","l">>)
    THEN IF MeasureRaises(DropLast(word, 2)) THEN Raised
         ELSE IF Measure(DropLast(word, 2)) > 1 THEN DropLast(word, 1)
         ELSE word
    ELSE word

Step5b(word) ==
    IF EndsWith(word, <<"l","l">>)
    THEN IF MeasureRaises(DropLast(word, 1)) THEN Raised
         ELSE IF Measure(DropLast(word, 1)) > 1 THEN DropLast(word, 1)
         ELSE word
    ELSE word

\* -------------------------------------------------------------------------
\* Case pattern restorer
\* -------------------------------------------------------------------------
\* ApplyCasePattern without the per-position branch: a mixed-case original
\* gives a lowercase result
ApplyCasePatternNoPositions(original_word, stemmed_word) ==
    IF Len(stemmed_word) = 0 THEN stemmed_word
    ELSE IF Len(original_word) = 0 THEN Lower(stemmed_word)
    ELSE IF ~IsAlpha(original_word) THEN Raised
    ELSE IF IsUpper(original_word) THEN Upper(stemmed_word)
    ELSE Lower(stemmed_word)

\* ApplyCasePattern taking the original's character, not the stem's in upper
\* case, where the original has an upper-case letter
ApplyCasePatternCopyingOriginal(original_word, stemmed_word) ==
    IF Len(stemmed_word) = 0 THEN stemmed_word
    ELSE IF Len(original_word) = 0 THEN Lower(stemmed_word)
    ELSE IF ~IsAlpha(original_word) THEN Raised
    ELSE IF IsUpper(original_word) THEN Upper(stemmed_word)
    ELSE IF IsLower(original_word) THEN Lower(stemmed_word)
    ELSE Concat([char_position \in 1..Len(stemmed_word) |->
            IF char_position <= Len(original_word)
            THEN IF IsUpperChar(original_word[char_position])
                 THEN <<original_word[char_position]>>
                 ELSE LowerStr(stemmed_word[char_position])
            ELSE LowerStr(stemmed_word[char_position])])

ApplyCasePattern(original_word, stemmed_word) ==
    IF Len(stemmed_word) = 0 THEN stemmed_word
    ELSE IF Len(original_word) = 0 THEN Lower(stemmed_word)
    ELSE IF ~IsAlpha(original_word) THEN Raised
    ELSE IF IsUpper(original_word) THEN Upper(stemmed_word)
    ELSE IF IsLower(original_word) THEN Lower(stemmed_word)
    ELSE Concat([char_position \in 1..Len(stemmed_word) |->
            IF char_position <= Len(original_word)
            THEN IF IsUpperChar(original_word[char_position])
                 THEN UpperStr(stemmed_word[char_position])
                 ELSE LowerStr(stemmed_word[char_position])
            ELSE LowerStr(stemmed_word[char_position])])

\* -------------------------------------------------------------------------
\* Irregular tables built by __init__
\* -------------------------------------------------------------------------
OriginalSpecialWords ==
    (<<"s","k","y">> :> <<"s","k","y">>) @@
    (<<"s","k","i","e","s">> :> <<"s","k","y">>) @@
    (<<"n","e","w","s">> :> <<"n","e","w","s">>) @@
    (<<"i","n","n","i","n","g","s">> :> <<"i","n","n","i","n","g">>) @@
    (<<"o","u","t","i","n","g">> :> <<"o","u","t","i","n","g">>) @@
    (<<"c","a","n","n","i","n","g">> :> <<"c","a","n","n","i","n","g">>) @@
    (<<"h","o","w","e">> :> <<"h","o","w","e">>) @@
    (<<"p","r","o","c","e","e","d">> :> <<"p","r","o","c","e","e","d">>) @@
    (<<"e","x","c","e","e","d">> :> <<"e","x","c","e","e","d">>) @@
    (<<"s","u","c","c","e","e","d">> :> <<"s","u","c","c","e","e","d">>)

SpecialWords ==
    (<<"s","k","y">> :> <<"s","k","y">>) @@
    (<<"s","k","i","e","s">> :> <<"s","k","y">>) @@
    (<<"d","i","e","s">> :> <<"d","i","e">>) @@
    (<<"t","i","e","s">> :> <<"t","i","e">>) @@
    (<<"l","i","e","s">> :> <<"l","i","e">>) @@
    (<<"d","y","i","n","g">> :> <<"d","i","e">>) @@
    (<<"l","y","i","n","g">> :> <<"l","i","e">>) @@
    (<<"t","y","i","n","g">> :> <<"t","i","e">>) @@
    (<<"n","e","w","s">> :> <<"n","e","w","s">>) @@
    (<<"i","n","n","i","n","g","s">> :> <<"i","n","n","i","n","g">>) @@
    (<<"o","u","t","i","n","g">> :> <<"o","u","t","i","n","g">>) @@
    (<<"c","a","n","n","i","n","g">> :> <<"c","a","n","n","i","n","g">>) @@
    (<<"h","o","w","e">> :> <<"h","o","w","e">>) @@
    (<<"p","r","o","c","e","e","d">> :> <<"p","r","o","c","e","e","d">>) @@
    (<<"e","x","c","e","e","d">> :> <<"e","x","c","e","e","d">>) @@
    (<<"s","u","c","c","e","e","d">> :> <<"s","u","c","c","e","e","d">>)

\* -------------------------------------------------------------------------
\* Python values and call outcomes
\* -------------------------------------------------------------------------
PyNone == [type |-> "NoneType", val |-> <<>>]

PyInt == [type |-> "int", val |-> <<>>]

PyStr(s) == [type |-> "str", val |-> s]

PyList(l) == [type |-> "list", val |-> l]

\* the arguments (word, index) of a helper call
PyArgs(w, index) == [type |-> "args", val |-> <<w, index>>]

Return(v) == [kind |-> "return", val |-> v, index |-> -1, cause |-> "none"]

\* an exception of class kind; val is the word, index the token index that
\* its message names, cause the class of the wrapped exception
Raise(kind, v, i, c) == [kind |-> kind, val |-> v, index |-> i, cause |-> c]

\* _is_consonant called as a method: validation, then the classification
IsConsonantMethod(word, index) ==
    IF Len(word) = 0 THEN Raise("ValueError", word, -1, "none")
    ELSE IF index < 0 \/ index >= Len(word) THEN Raise("IndexError", word, index, "none")
    ELSE IF ~IsAlpha(word) THEN Raise("ValueError", word, -1, "none")
    ELSE Return(IsConsonant(word, index))

\* _measure called as a method
MeasureMethod(word) ==
    IF Len(word) = 0 THEN Return(0)
    ELSE IF ~IsAlpha(word) THEN Raise("ValueError", word, -1, "none")
    ELSE Return(Measure(word))

\* -------------------------------------------------------------------------
\* stem_word, stage by stage.  self is the record of the instance's fields.
\* -------------------------------------------------------------------------
\* ValidateWord without the check for the empty string
ValidateWordAcceptingEmpty(x) ==
    IF x.type = "NoneType" THEN Raise("ValueError", <<>>, -1, "none")
    ELSE IF x.type # "str" THEN Raise("TypeError", <<>>, -1, "none")
    ELSE Return(x.val)

\* the three checks in front of the try block; the word when all pass
ValidateWord(x) ==
    IF x.type = "NoneType" THEN Raise("ValueError", <<>>, -1, "none")
    ELSE IF x.type # "str" THEN Raise("TypeError", <<>>, -1, "none")
    ELSE IF Len(x.val) = 0 THEN Raise("ValueError", <<>>, -1, "none")
    ELSE Return(x.val)

\* ShortWord with the bound off by one
ShortWordOnlyOne(word) == Len(word) <= 1

\* "Skip very short words (length 1 or 2)"
ShortWord(word) == Len(word) <= 2

\* ActiveTable without the mode check: every mode uses the full table
ActiveTableAnyMode(self) == self.special_words

\* the table consulted for the instance's mode
ActiveTable(self) ==
    IF self.mode = "NLTK_EXTENSIONS" THEN self.special_words
    ELSE self.original_special_words

\* OnError handing back the lowercased word instead of the original
OnErrorLowercased(self, original_word) ==
    IF self.preserve_original_on_error THEN Return(Lower(original_word))
    ELSE Raise("RuntimeError", Lower(original_word), -1, "ValueError")

\* the except clause of stem_word
OnError(self, original_word) ==
    IF self.preserve_original_on_error THEN Return(original_word)
    ELSE Raise("RuntimeError", original_word, -1, "ValueError")

\* "if not self.to_lowercase: apply the case pattern", then return
Restore(self, original_word, word) ==
    IF ~self.to_lowercase
    THEN LET result == ApplyCasePattern(original_word, word)
         IN  IF result = Raised THEN OnError(self, original_word)
             ELSE Return(result)
    ELSE Return(word)

\* StepOrder with steps 1b and 1c exchanged
StepOrderSwapped ==
    <<"step1a", "step1c", "step1b", "step2", "step3", "step4", "step5a", "step5b">>

StepOrder ==
    <<"step1a", "step1b", "step1c", "step2", "step3", "step4", "step5a", "step5b">>

ApplyStep(step, word, mode) ==
    CASE step = "step1a" -> Step1a(word, mode)
      [] step = "step1b" -> Step1b(word)
      [] step = "step1c" -> Step1c(word, mode)
      [] step = "step2"  -> Step2(word)
      [] step = "step3"  -> Step3(word)
      [] step = "step4"  -> Step4(word)
      [] step = "step5a" -> Step5a(word)
      [] step = "step5b" -> Step5b(word)

\* the buffer after steps k.. of StepOrder, or Raised
RECURSIVE RunSteps(_, _, _)
RunSteps(k, word, mode) ==
    IF k > Len(StepOrder) THEN word
    ELSE LET next == ApplyStep(StepOrder[k], word, mode)
         IN  IF next = Raised THEN Raised ELSE RunSteps(k + 1, next, mode)

\* the whole of stem_word as a function of its argument and the instance
StemWord(self, x) ==
    IF ValidateWord(x).kind # "return" THEN ValidateWord(x)
    ELSE LET original_word == x.val
             word_lower == Lower(original_word)
         IN  IF word_lower \in DOMAIN ActiveTable(self)
             THEN Restore(self, original_word, ActiveTable(self)[word_lower])
             ELSE IF ShortWord(word_lower)
             THEN Restore(self, original_word, word_lower)
             ELSE LET stemmed == RunSteps(1, word_lower, self.mode)
                  IN  IF stemmed = Raised THEN OnError(self, original_word)
                      ELSE Restore(self, original_word, stemmed)

\* -------------------------------------------------------------------------
\* stem_document
\* -------------------------------------------------------------------------
\* characters_to_remove; the backquote and the eight symbols outside ASCII
\* are written by their code points
CharactersToRemove ==
    {"\n", "\t", "\r",
     ".", ",", "!", "?", ";", ":", "\"", "(", ")", "[", "]", "{", "}",
     "/", "<", ">", "\\", "|",
     "@", "#", "$", "%", "^", "&", "*", "+", "-", "=", "_", "~", "<U+0060>",
     "<U+00AB>", "<U+00BB>",
     "<U+00A7>", "<U+00B6>", "<U+2020>", "<U+2021>", "<U+2022>", "<U+00B7>"}

\* the characters \s matches and str.strip() strips: those of the model's
\* texts, U+00A0 (NO-BREAK SPACE) standing for the whitespace that is not in
\* characters_to_remove
Whitespace == {" ", "\n", "\t", "\r", "<U+00A0>"}

\* text.translate(translation_table)
Translate(text) ==
    [i \in 1..Len(text) |-> IF text[i] \in CharactersToRemove THEN " " ELSE text[i]]

\* CollapseWhitespace turning every whitespace character into a space of
\* its own
CollapseWhitespaceEach(text) ==
    [i \in 1..Len(text) |-> IF text[i] \in Whitespace THEN " " ELSE text[i]]

\* re.sub(r"\s+", " ", text): every maximal run of whitespace becomes " "
RECURSIVE CollapseWhitespace(_)
CollapseWhitespace(text) ==
    IF Len(text) = 0 THEN <<>>
    ELSE IF text[1] \in Whitespace
         THEN IF Len(text) > 1 /\ text[2] \in Whitespace
              THEN CollapseWhitespace(Tail(text))
              ELSE <<" ">> \o CollapseWhitespace(Tail(text))
         ELSE <<text[1]>> \o CollapseWhitespace(Tail(text))

\* str.strip()
RECURSIVE Strip(_)
Strip(text) ==
    IF Len(text) = 0 THEN text
    ELSE IF text[1] \in Whitespace THEN Strip(Tail(text))
    ELSE IF text[Len(text)] \in Whitespace THEN Strip(DropLast(text, 1))
    ELSE text

\* CleanNonAlphanumeric without the final strip()
CleanNonAlphanumericUntrimmed(text) == CollapseWhitespace(Translate(text))

CleanNonAlphanumeric(text) == Strip(CollapseWhitespace(Translate(text)))

\* \w of the regular expression: letters, digits and the underscore
IsWordChar(c) == IsAlphaChar(c) \/ c \in DigitSet \/ c = "_"

\* [^\W\d_]: a \w character that is neither a digit nor the underscore
IsPatternLetter(c) == IsWordChar(c) /\ c \notin DigitSet /\ c # "_"

\* \b in front of position g (1-based; g = Len+1 is the end of the text)
Boundary(text, g) ==
    (g > 1 /\ IsWordChar(text[g - 1])) # (g <= Len(text) /\ IsWordChar(text[g]))

\* last position of the match of \b[^\W\d_]+\b that starts at i, 0 if the
\* pattern does not match there; + is greedy, so the longest candidate wins
MatchEnd(text, i) ==
    LET ends == {j \in i..Len(text) :
                    /\ \A k \in i..j : IsPatternLetter(text[k])
                    /\ Boundary(text, j + 1)}
    IN  IF Boundary(text, i) /\ ends # {}
        THEN CHOOSE j \in ends : \A k \in ends : k <= j
        ELSE 0

\* replace_word: the stem, or the matched word when stem_word raises
ReplaceWord(self, matched) ==
    LET outcome == StemWord(self, PyStr(matched))
    IN  IF outcome.kind = "return" THEN outcome.val ELSE matched

\* word_pattern.sub(replace_word, text), scanning from position i
RECURSIVE SubWords(_, _, _)
SubWords(self, text, i) ==
    IF i > Len(text) THEN <<>>
    ELSE LET j == MatchEnd(text, i)
         IN  IF j = 0 THEN <<text[i]>> \o SubWords(self, text, i + 1)
             ELSE ReplaceWord(self, SubSeq(text, i, j)) \o SubWords(self, text, j + 1)

StemDocument(self, x, clean_non_alphanumeric) ==
    IF x.type = "NoneType" THEN Raise("ValueError", <<>>, -1, "none")
    ELSE IF x.type # "str" THEN Raise("TypeError", <<>>, -1, "none")
    ELSE IF Len(x.val) = 0 THEN Return(x.val)
    ELSE LET text == IF clean_non_alphanumeric
                     THEN CleanNonAlphanumeric(x.val)
                     ELSE x.val
         IN  IF Len(text) = 0 THEN Return(text)
             ELSE Return(SubWords(self, text, 1))

\* -------------------------------------------------------------------------
\* stem_tokens
\* -------------------------------------------------------------------------
\* TokenLoop putting each stem in front of the list instead of at its end
RECURSIVE TokenLoopPrepending(_, _, _, _)
TokenLoopPrepending(self, tokens, i, stemmed_tokens) ==
    IF i >= Len(tokens) THEN Return(stemmed_tokens)
    ELSE LET token == tokens[i + 1]
         IN  IF token.type # "str" THEN Raise("TypeError", <<>>, i, "none")
             ELSE LET outcome == StemWord(self, token)
                  IN  IF outcome.kind = "return"
                      THEN TokenLoopPrepending(self, tokens, i + 1,
                                               <<outcome.val>> \o stemmed_tokens)
                      ELSE IF self.preserve_original_on_error
                      THEN TokenLoopPrepending(self, tokens, i + 1,
                                               <<token.val>> \o stemmed_tokens)
                      ELSE Raise("RuntimeError", <<>>, i, outcome.kind)

\* the loop over tokens from 0-based index i on, stemmed_tokens so far
RECURSIVE TokenLoop(_, _, _, _)
TokenLoop(self, tokens, i, stemmed_tokens) ==
    IF i >= Len(tokens) THEN Return(stemmed_tokens)
    ELSE LET token == tokens[i + 1]
         IN  IF token.type # "str" THEN Raise("TypeError", <<>>, i, "none")
             ELSE LET outcome == StemWord(self, token)
                  IN  IF outcome.kind = "return"
                      THEN TokenLoop(self, tokens, i + 1,
                                     Append(stemmed_tokens, outcome.val))
                      ELSE IF self.preserve_original_on_error
                      THEN TokenLoop(self, tokens, i + 1,
                                     Append(stemmed_tokens, token.val))
                      ELSE Raise("RuntimeError", <<>>, i, outcome.kind)

StemTokens(self, x) ==
    IF x.type = "NoneType" THEN Raise("ValueError", <<>>, -1, "none")
    ELSE IF x.type # "list" THEN Raise("TypeError", <<>>, -1, "none")
    ELSE TokenLoop(self, x.val, 0, <<>>)

\* -------------------------------------------------------------------------
\* Bounds and inputs of the calls
\* -------------------------------------------------------------------------
\* longest string enumerated over Alphabet
MaxLen == 3

\* longest token list passed to stem_tokens
MaxTokens == 3

\* largest number of pieces a document text is put together from
MaxPieces == 3

SeqsUpTo(S, n) == UNION {[1..k -> S] : k \in 0..n}

\* vowels, the letters the steps key on, an upper-case letter and a
\* character that is not a letter
Alphabet == {"a", "e", "s", "y", "D", "'"}

\* the words of the tables, of the repository's tests and of its examples,
\* with cased and non-alphabetic variants
Vocabulary ==
    {<<"s","k","y">>,
     <<"s","k","i","e","s">>,
     <<"n","e","w","s">>,
     <<"i","n","n","i","n","g","s">>,
     <<"o","u","t","i","n","g">>,
     <<"c","a","n","n","i","n","g">>,
     <<"h","o","w","e">>,
     <<"p","r","o","c","e","e","d">>,
     <<"e","x","c","e","e","d">>,
     <<"s","u","c","c","e","e","d">>,
     <<"d","i","e","s">>,
     <<"t","i","e","s">>,
     <<"l","i","e","s">>,
     <<"d","y","i","n","g">>,
     <<"l","y","i","n","g">>,
     <<"t","y","i","n","g">>,
     <<"c","a","r","e","s","s","e","s">>,
     <<"p","o","n","i","e","s">>,
     <<"c","a","r","e","s","s">>,
     <<"c","a","t","s">>,
     <<"a","g","r","e","e","d">>,
     <<"f","e","e","d">>,
     <<"p","l","a","s","t","e","r","e","d">>,
     <<"b","l","e","d">>,
     <<"m","o","t","o","r","i","n","g">>,
     <<"h","o","p","p","i","n","g">>,
     <<"f","i","l","i","n","g">>,
     <<"f","a","l","l","i","n","g">>,
     <<"s","i","n","g">>,
     <<"h","a","p","p","y">>,
     <<"c","r","y">>,
     <<"s","a","y">>,
     <<"e","n","j","o","y">>,
     <<"b","y">>,
     <<"a","m">>,
     <<"i","s">>,
     <<"a">>,
     <<"r","e","l","a","t","i","o","n","a","l">>,
     <<"c","o","n","d","i","t","i","o","n","a","l">>,
     <<"v","a","l","e","n","c","i">>,
     <<"d","i","g","i","t","i","z","e","r">>,
     <<"c","o","n","f","o","r","m","a","b","l","i">>,
     <<"v","i","e","t","n","a","m","i","z","a","t","i","o","n">>,
     <<"t","r","i","p","l","i","c","a","t","e">>,
     <<"f","o","r","m","a","t","i","v","e">>,
     <<"f","o","r","m","a","l","i","z","e">>,
     <<"e","l","e","c","t","r","i","c","i","t","i">>,
     <<"h","o","p","e","f","u","l">>,
     <<"r","e","v","i","v","a","l">>,
     <<"a","i","r","l","i","n","e","r">>,
     <<"a","d","j","u","s","t","a","b","l","e">>,
     <<"a","d","j","u","s","t","m","e","n","t">>,
     <<"a","d","o","p","t","i","o","n">>,
     <<"p","r","o","b","a","t","e">>,
     <<"c","e","a","s","e">>,
     <<"h","o","p","e">>,
     <<"r","a","t","e">>,
     <<"c","o","n","t","r","o","l","l">>,
     <<"r","o","l","l">>,
     <<"r","u","n","n","i","n","g">>,
     <<"f","l","i","e","s">>,
     <<"c","r","i","e","s">>,
     <<"h","a","p","p","i","l","y">>,
     <<"q","u","i","c","k","l","y">>,
     <<"b","o","y","s">>,
     <<"t","h","e">>,
     <<"a","r","e">>,
     <<"R","u","n","n","i","n","g">>,
     <<"F","L","I","E","S">>,
     <<"H","a","P","p","I","l","Y">>,
     <<"S","k","y">>,
     <<"S","K","Y">>,
     <<"s","K","y">>,
     <<"s","K","I","e","s">>,
     <<"D","Y","I","N","G">>,
     <<"D","i","e","s">>,
     <<"A","M">>,
     <<"a","M">>,
     <<"T","h","e">>,
     <<"i","t","'","s">>,
     <<"I","T","'","S">>,
     <<"a","1">>,
     <<"A","1">>,
     <<"c","a","t","s","2">>,
     <<"x","'","y">>,
     <<"a","b","'","i","n","g">>,
     <<"a","'","e","e","d">>,
     <<"p","i","e","s">>,
     <<"v","i","e","s">>,
     <<"t","a","n","n","e","d">>,
     <<"h","i","s","s","i","n","g">>,
     <<"f","i","z","z","e","d">>,
     <<"f","a","i","l","i","n","g">>,
     <<"s","i","z","e","d">>,
     <<"c","o","n","f","l","a","t","e","d">>,
     <<"t","r","o","u","b","l","i","n","g">>,
     <<"f","l","e","d">>,
     <<"b","r","i","n","g">>,
     <<"t","o","y">>,
     <<"b","o","y">>,
     <<"f","r","e","e","d">>,
     <<"i","n","d","e","e","d">>,
     <<"h","o","p","i","n","g">>,
     <<"s","n","o","w","i","n","g">>,
     <<"b","o","x","i","n","g">>,
     <<"p","l","a","y","i","n","g">>,
     <<"d","y","e","d">>,
     <<"c","r","y","i","n","g">>,
     <<"s","p","y">>,
     <<"a","y">>,
     <<"d","a","i","l","y">>,
     <<"y","y","y">>,
     <<"s","h","y","l","y">>,
     <<"t","y","y","i","n","g">>,
     <<"a","y","y","e","d">>,
     <<IDot>>,
     <<IDot,"s">>,
     <<IDot,"S">>,
     <<IDot,"e","d">>,
     <<"s",IDot,"e","s">>}

\* the words the paper gives for the rules of steps 2, 3 and 4 that the
\* tests do not use
PaperWords ==
    {<<"r","a","t","i","o","n","a","l">>,
     <<"h","e","s","i","t","a","n","c","i">>,
     <<"r","a","d","i","c","a","l","l","i">>,
     <<"d","i","f","f","e","r","e","n","t","l","i">>,
     <<"v","i","l","e","l","i">>,
     <<"a","n","a","l","o","g","o","u","s","l","i">>,
     <<"p","r","e","d","i","c","a","t","i","o","n">>,
     <<"o","p","e","r","a","t","o","r">>,
     <<"f","e","u","d","a","l","i","s","m">>,
     <<"d","e","c","i","s","i","v","e","n","e","s","s">>,
     <<"h","o","p","e","f","u","l","n","e","s","s">>,
     <<"c","a","l","l","o","u","s","n","e","s","s">>,
     <<"f","o","r","m","a","l","i","t","i">>,
     <<"s","e","n","s","i","t","i","v","i","t","i">>,
     <<"s","e","n","s","i","b","i","l","i","t","i">>,
     <<"e","l","e","c","t","r","i","c","a","l">>,
     <<"g","o","o","d","n","e","s","s">>,
     <<"a","l","l","o","w","a","n","c","e">>,
     <<"i","n","f","e","r","e","n","c","e">>,
     <<"g","y","r","o","s","c","o","p","i","c">>,
     <<"d","e","f","e","n","s","i","b","l","e">>,
     <<"i","r","r","i","t","a","n","t">>,
     <<"r","e","p","l","a","c","e","m","e","n","t">>,
     <<"d","e","p","e","n","d","e","n","t">>,
     <<"h","o","m","o","l","o","g","o","u">>,
     <<"c","o","m","m","u","n","i","s","m">>,
     <<"a","c","t","i","v","a","t","e">>,
     <<"a","n","g","u","l","a","r","i","t","i">>,
     <<"h","o","m","o","l","o","g","o","u","s">>,
     <<"e","f","f","e","c","t","i","v","e">>,
     <<"b","o","w","d","l","e","r","i","z","e">>}

\* words on which a guard of steps 2 and 4 fails, or that end in logi
GuardWords ==
    {<<"r","i","z","a","t","i","o","n">>,
     <<"b","a","s","e","m","e","n","t">>,
     <<"c","e","m","e","n","t">>,
     <<"o","n","i","o","n">>,
     <<"n","a","t","i","o","n">>,
     <<"a","p","o","l","o","g","y">>,
     <<"a","p","o","l","o","g","i">>,
     <<"l","o","g","i">>,
     <<"o","p","i","n","i","o","n">>}

\* every suffix of the rule tables as a word of its own: its stem is empty
SuffixWords ==
    {Step2Mappings[k][1] : k \in 1..Len(Step2Mappings)}
        \cup {Step3Mappings[k][1] : k \in 1..Len(Step3Mappings)}
        \cup {Step4Suffixes[k] : k \in 1..Len(Step4Suffixes)}
        \cup {<<"s","s","e","s">>, <<"i","e","s">>, <<"e","e","d">>,
              <<"i","n","g">>, <<"I","N","G">>, <<"i","o","n">>, <<"e","l","l">>}

Strings == Vocabulary \cup PaperWords \cup GuardWords \cup SuffixWords
               \cup SeqsUpTo(Alphabet, MaxLen)

WordArgs == {PyNone, PyInt} \cup {PyStr(s) : s \in Strings}

TokenValues ==
    {PyStr(<<"r","u","n","n","i","n","g">>),
     PyStr(<<"f","l","i","e","s">>),
     PyStr(<<"h","a","p","p","i","l","y">>),
     PyStr(<<"S","k","y">>),
     PyStr(<<"i","t","'","s">>),
     PyStr(<<"x","'","y">>),
     PyStr(<<>>),
     PyInt}

TokensArgs ==
    {PyNone, PyStr(<<"r","u","n","n","i","n","g">>)}
        \cup {PyList(l) : l \in SeqsUpTo(TokenValues, MaxTokens)}

Pieces ==
    {<<"c","a","t","s">>,
     <<IDot,"s">>,
     <<"S","K","Y">>,
     <<" ">>,
     <<"!">>,
     <<"2">>,
     <<"_">>,
     <<"'">>}

ExampleText ==
    <<"T","h","e"," ","b","o","y","s"," ","a","r","e"," ","r","u","n","n","i","n","g"," ","q","u","i","c","k","l","y","!">>

\* texts of test_alphanumeric_cleaning, and one with whitespace and symbols
\* outside ASCII
CleaningTexts ==
    {<<"u","s","e","r","@","e","m","a","i","l",".","c","o","m">>,
     <<"d","o","n","'","t">>,
     <<"p","r","e","-","p","r","o","c","e","s","s">>,
     <<"o","n","e","\n","t","w","o","\t","t","h","r","e","e","\r","f","o","u","r">>,
     <<" "," ","L","e","a","d","i","n","g"," "," ","a","n","d"," "," ">>,
     <<"M","i","x","1","2","3","N","u","m","b","e","r","s","4","5","6">>,
     <<"<U+00A0>","<U+00AB>","c","a","t","s","<U+00BB>","<U+00A0>"," ","<U+0060>","i","t","'","s","<U+2022>">>}

Texts ==
    {ExampleText} \cup CleaningTexts
        \cup {Concat(parts) : parts \in SeqsUpTo(Pieces, MaxPieces)}

TextArgs == {PyNone, PyInt} \cup {PyStr(t) : t \in Texts}

\* buffers for the helper methods: the words of their docstrings and of the
\* reference comments, every string over a vowel, y and a consonant, the
\* empty buffer and one that is not alphabetic
HelperWords ==
    {<<"t","r">>, <<"e","e">>, <<"t","r","e","e">>, <<"y">>, <<"b","y">>,
     <<"t","r","o","u","b","l","e">>, <<"o","a","t","s">>,
     <<"t","r","e","e","s">>, <<"i","v","y">>,
     <<"t","r","o","u","b","l","e","s">>, <<"p","r","i","v","a","t","e">>,
     <<"o","a","t","e","n">>, <<"o","r","r","e","r","y">>,
     <<"t","o","y">>, <<"s","y","z","y","g","y">>,
     <<"h","a","p","p","y">>, <<"y","e","l","l","o","w">>,
     <<"b","o","y","i","s","h">>, <<"a","y","y","y","y">>,
     <<"x","'","y">>}
        \cup SeqsUpTo({"a", "y", "t"}, MaxLen)

\* -------------------------------------------------------------------------
\* State
\* -------------------------------------------------------------------------
VARIABLES
    to_lowercase,                \* self.to_lowercase
    preserve_original_on_error,  \* self.preserve_original_on_error
    mode,                        \* self.mode
    original_special_words,      \* self.original_special_words
    special_words,               \* self.special_words
    constructed,                 \* the fields as __init__ set them
    pc,                          \* "idle", a position of the running stem_word
                                 \* call, or "returned" once a call has ended
    original_word,               \* stem_word's local original_word
    word,                        \* stem_word's local word: the working buffer
    trace,                       \* stages the running stem_word call executed
    fault,                       \* stage of that call that raised, or "none"
    last,                        \* the most recent call and its outcome
    failed                       \* an earlier call on this instance raised

fields == <<to_lowercase, preserve_original_on_error, mode,
            original_special_words, special_words>>

frame == <<pc, original_word, word, trace, fault>>

vars == <<to_lowercase, preserve_original_on_error, mode,
          original_special_words, special_words, constructed,
          pc, original_word, word, trace, fault, last, failed>>

Self ==
    [to_lowercase |-> to_lowercase,
     preserve_original_on_error |-> preserve_original_on_error,
     mode |-> mode,
     original_special_words |-> original_special_words,
     special_words |-> special_words]

Pending == [kind |-> "pending", val |-> <<>>, index |-> -1, cause |-> "none"]

Call(op, arg, clean, out) == [op |-> op, arg |-> arg, clean |-> clean, out |-> out]

NoCall == Call("none", PyNone, FALSE, Pending)

Init ==
    /\ to_lowercase \in BOOLEAN
    /\ preserve_original_on_error \in BOOLEAN
    /\ mode \in {"ORIGINAL", "NLTK_EXTENSIONS"}
    /\ original_special_words = OriginalSpecialWords
    /\ special_words = SpecialWords
    /\ constructed = Self
    /\ pc = "idle"
    /\ original_word = <<>>
    /\ word = <<>>
    /\ trace = <<>>
    /\ fault = "none"
    /\ last = NoCall
    /\ failed = FALSE

\* -------------------------------------------------------------------------
\* stem_word: one action per position of its body
\* -------------------------------------------------------------------------
Stage(step, in, out) == [step |-> step, in |-> in, out |-> out]

\* the case restorer raises inside "if not self.to_lowercase"
RestoreRaises(self, original, stemmed) ==
    ~self.to_lowercase /\ ApplyCasePattern(original, stemmed) = Raised

\* the call leaves stem_word with the given outcome
Leave(stage, culprit, out) ==
    /\ pc' = "returned"
    /\ trace' = Append(trace, stage)
    /\ fault' = culprit
    /\ last' = Call("stem_word", PyStr(original_word), FALSE, out)
    /\ UNCHANGED <<original_word, word>>

\* entry and input validation
StemWordCall ==
    /\ pc = "idle"
    /\ \E x \in WordArgs :
        IF ValidateWord(x).kind # "return"
        THEN /\ last' = Call("stem_word", x, FALSE, ValidateWord(x))
             /\ pc' = "returned"
             /\ original_word' = <<>>
             /\ word' = <<>>
             /\ trace' = <<>>
             /\ fault' = "none"
        ELSE /\ last' = Call("stem_word", x, FALSE, Pending)
             /\ pc' = "lookup"
             /\ original_word' = x.val
             /\ word' = x.val
             /\ trace' = <<>>
             /\ fault' = "none"
    /\ UNCHANGED <<fields, constructed, failed>>

\* the special-word check of the active mode
Lookup ==
    /\ pc = "lookup"
    /\ LET word_lower == Lower(word)
       IN  IF word_lower \in DOMAIN ActiveTable(Self)
           THEN LET result == ActiveTable(Self)[word_lower]
                IN  Leave(Stage("lookup", word, result),
                          IF RestoreRaises(Self, original_word, result)
                          THEN "case_pattern" ELSE "none",
                          Restore(Self, original_word, result))
           ELSE /\ word' = word_lower
                /\ pc' = "length_filter"
                /\ trace' = Append(trace, Stage("lookup", word, word_lower))
                /\ UNCHANGED <<original_word, fault, last>>
    /\ UNCHANGED <<fields, constructed, failed>>

\* words of length 1 or 2 skip the steps
LengthFilter ==
    /\ pc = "length_filter"
    /\ IF ShortWord(word)
       THEN Leave(Stage("length_filter", word, word),
                  IF RestoreRaises(Self, original_word, word)
                  THEN "case_pattern" ELSE "none",
                  Restore(Self, original_word, word))
       ELSE /\ pc' = "step1a"
            /\ trace' = Append(trace, Stage("length_filter", word, word))
            /\ UNCHANGED <<original_word, word, fault, last>>
    /\ UNCHANGED <<fields, constructed, failed>>

\* the statement that follows "word = self._stepX(word)"
After(step) ==
    LET k == CHOOSE n \in 1..Len(StepOrder) : StepOrder[n] = step
    IN  IF k < Len(StepOrder) THEN StepOrder[k + 1] ELSE "restore"

\* "word = self._stepX(word)"; a raising step ends in the except clause
RunStep(step) ==
    /\ pc = step
    /\ LET next == ApplyStep(step, word, mode)
       IN  IF next = Raised
           THEN Leave(Stage(step, word, Raised), step, OnError(Self, original_word))
           ELSE /\ word' = next
                /\ pc' = After(step)
                /\ trace' = Append(trace, Stage(step, word, next))
                /\ UNCHANGED <<original_word, fault, last>>
    /\ UNCHANGED <<fields, constructed, failed>>

Step1aAct == RunStep("step1a")

Step1bAct == RunStep("step1b")

Step1cAct == RunStep("step1c")

Step2Act == RunStep("step2")

Step3Act == RunStep("step3")

Step4Act == RunStep("step4")

Step5aAct == RunStep("step5a")

Step5bAct == RunStep("step5b")

\* case restoration and return
RestoreAct ==
    /\ pc = "restore"
    /\ Leave(Stage("restore", word, Restore(Self, original_word, word).val),
             IF RestoreRaises(Self, original_word, word)
             THEN "case_pattern" ELSE "none",
             Restore(Self, original_word, word))
    /\ UNCHANGED <<fields, constructed, failed>>

\* -------------------------------------------------------------------------
\* stem_document and stem_tokens
\* -------------------------------------------------------------------------
\* StemDocumentCall switching the instance to lowercase output when it cleans
StemDocumentCallForcingLowercase ==
    /\ pc = "idle"
    /\ \E x \in TextArgs, clean_non_alphanumeric \in BOOLEAN :
        /\ last' = Call("stem_document", x, clean_non_alphanumeric,
                        StemDocument(Self, x, clean_non_alphanumeric))
        /\ to_lowercase' = (to_lowercase \/ clean_non_alphanumeric)
    /\ pc' = "returned"
    /\ original_word' = <<>>
    /\ word' = <<>>
    /\ trace' = <<>>
    /\ fault' = "none"
    /\ UNCHANGED <<preserve_original_on_error, mode, original_special_words,
                   special_words, constructed, failed>>

StemDocumentCall ==
    /\ pc = "idle"
    /\ \E x \in TextArgs, clean_non_alphanumeric \in BOOLEAN :
        last' = Call("stem_document", x, clean_non_alphanumeric,
                     StemDocument(Self, x, clean_non_alphanumeric))
    /\ pc' = "returned"
    /\ original_word' = <<>>
    /\ word' = <<>>
    /\ trace' = <<>>
    /\ fault' = "none"
    /\ UNCHANGED <<fields, constructed, failed>>

StemTokensCall ==
    /\ pc = "idle"
    /\ \E x \in TokensArgs :
        last' = Call("stem_tokens", x, FALSE, StemTokens(Self, x))
    /\ pc' = "returned"
    /\ original_word' = <<>>
    /\ word' = <<>>
    /\ trace' = <<>>
    /\ fault' = "none"
    /\ UNCHANGED <<fields, constructed, failed>>

\* a caller (a step's guard, a test) asks for the class of one letter
IsConsonantCall ==
    /\ pc = "idle"
    /\ \E w \in HelperWords : \E index \in 0..Len(w) :
        last' = Call("_is_consonant", PyArgs(w, index), FALSE,
                     IsConsonantMethod(w, index))
    /\ pc' = "returned"
    /\ original_word' = <<>>
    /\ word' = <<>>
    /\ trace' = <<>>
    /\ fault' = "none"
    /\ UNCHANGED <<fields, constructed, failed>>

\* a caller asks for the measure of a buffer
MeasureCall ==
    /\ pc = "idle"
    /\ \E w \in HelperWords :
        last' = Call("_measure", PyStr(w), FALSE, MeasureMethod(w))
    /\ pc' = "returned"
    /\ original_word' = <<>>
    /\ word' = <<>>
    /\ trace' = <<>>
    /\ fault' = "none"
    /\ UNCHANGED <<fields, constructed, failed>>

\* the caller takes the outcome; the instance is ready for the next call
CallerResumes ==
    /\ pc = "returned"
    /\ pc' = "idle"
    /\ original_word' = <<>>
    /\ word' = <<>>
    /\ trace' = <<>>
    /\ fault' = "none"
    /\ last' = NoCall
    /\ failed' = (failed \/ last.out.kind # "return")
    /\ UNCHANGED <<fields, constructed>>

Next ==
    \/ StemWordCall
    \/ Lookup
    \/ LengthFilter
    \/ Step1aAct
    \/ Step1bAct
    \/ Step1cAct
    \/ Step2Act
    \/ Step3Act
    \/ Step4Act
    \/ Step5aAct
    \/ Step5bAct
    \/ RestoreAct
    \/ StemDocumentCall
    \/ StemTokensCall
    \/ IsConsonantCall
    \/ MeasureCall
    \/ CallerResumes

Spec == Init /\ [][Next]_vars

\* =========================================================================
\* Properties
\* =========================================================================
\* a stem_word call on a non-empty string has just ended
StemWordEnded ==
    /\ pc = "returned"
    /\ last.op = "stem_word"
    /\ last.arg.type = "str"
    /\ Len(last.arg.val) > 0

\* the string is made of the letters A-Z and a-z only
AsciiLetters(w) == \A i \in 1..Len(w) : w[i] \in LowerSet \cup UpperSet

\* the names of the stages in trace, in execution order
StageNames == [i \in 1..Len(trace) |-> trace[i].step]

\* the entries of trace that are steps of the algorithm
StepEntries == SelectSeq(trace, LAMBDA e : e.step \notin {"lookup", "length_filter", "restore"})

EightSteps ==
    <<"step1a", "step1b", "step1c", "step2", "step3", "step4", "step5a", "step5b">>

\* every step entry holds what that step's function makes of its input
StepEntryComputed(e) ==
    e.out = CASE e.step = "step1a" -> Step1a(e.in, mode)
              [] e.step = "step1b" -> Step1b(e.in)
              [] e.step = "step1c" -> Step1c(e.in, mode)
              [] e.step = "step2"  -> Step2(e.in)
              [] e.step = "step3"  -> Step3(e.in)
              [] e.step = "step4"  -> Step4(e.in)
              [] e.step = "step5a" -> Step5a(e.in)
              [] e.step = "step5b" -> Step5b(e.in)

\* C1: for a word of length >= 3 that is not in the active irregular table,
\* stem_word runs step 1a, 1b, 1c, 2, 3, 4, 5a, 5b once each in this order,
\* the first on the lowercased word and each later one on the output of the
\* one before it.  At every moment of a call the steps executed so far are
\* a prefix of that order; the call ends with all eight executed unless a
\* step raised, and no step raises on a word of the letters A-Z and a-z.
\* The trace is kept until the call has ended, where each entry is compared
\* with what its step's function computes.
C1_StepsOnceInOrder ==
    LET steps == StepEntries
        n == Len(steps)
    IN  /\ n <= 8
        /\ \A i \in 1..n : steps[i].step = EightSteps[i]
        /\ pc = "returned" => \A i \in 1..n : StepEntryComputed(steps[i])
        /\ n > 0 => steps[1].in = Lower(original_word)
        /\ \A i \in 1..(n - 1) : steps[i + 1].in = steps[i].out
        /\ n > 0 => /\ Len(Lower(original_word)) >= 3
                    /\ Lower(original_word) \notin DOMAIN ActiveTable(Self)
        /\ (pc \in {"step1a", "step1b", "step1c", "step2", "step3", "step4",
                    "step5a", "step5b"}) => (n < 8 /\ pc = EightSteps[n + 1])
        /\ (/\ StemWordEnded
            /\ Len(last.arg.val) >= 3
            /\ Lower(last.arg.val) \notin DOMAIN ActiveTable(Self))
           => /\ AsciiLetters(last.arg.val) => fault \notin {EightSteps[i] : i \in 1..8}
              /\ fault \notin {EightSteps[i] : i \in 1..8}
                 => /\ n = 8
                    /\ StageNames = <<"lookup", "length_filter">> \o EightSteps \o <<"restore">>
                    /\ trace[Len(trace)].in = steps[8].out
              /\ fault \in {EightSteps[i] : i \in 1..8}
                 => /\ steps[n].step = fault
                    /\ steps[n].out = Raised

\* witness of C1: a call ran all eight steps and two of them changed the buffer
C1_Witness ==
    /\ StemWordEnded
    /\ Len(StepEntries) = 8
    /\ \E i, j \in 1..8 :
        /\ i < j
        /\ StepEntries[i].out # StepEntries[i].in
        /\ StepEntries[j].out # StepEntries[j].in

\* the keys that only the NLTK_EXTENSIONS table has
ExtendedOnlyKeys ==
    {<<"d","i","e","s">>, <<"t","i","e","s">>, <<"l","i","e","s">>,
     <<"d","y","i","n","g">>, <<"l","y","i","n","g">>, <<"t","y","i","n","g">>}

\* C2: a word whose lowercased form is a key of the active mode's irregular
\* table gets that table's stem (in the original's casing when to_lowercase
\* is off), and neither the length filter nor any step runs; in ORIGINAL mode
\* dies, ties, lies, dying, lying and tying are no keys and run through the
\* eight steps (sky -> sky and skies -> sky in both modes, dying -> die in
\* NLTK_EXTENSIONS and dying -> dy in ORIGINAL).
C2_IrregularLookup ==
    StemWordEnded =>
        LET w == last.arg.val
            key == Lower(w)
            table == IF mode = "NLTK_EXTENSIONS" THEN special_words
                     ELSE original_special_words
        IN  /\ DOMAIN special_words \ DOMAIN original_special_words = ExtendedOnlyKeys
            /\ key \in DOMAIN table =>
                /\ last.out.kind = "return"
                /\ Lower(last.out.val) = table[key]
                /\ (to_lowercase \/ w = key) => last.out.val = table[key]
                /\ StageNames = <<"lookup">>
            /\ (mode = "ORIGINAL" /\ key \in ExtendedOnlyKeys) =>
                /\ Len(StepEntries) = 8
                /\ last.out.kind = "return"
            /\ w = <<"s","k","y">> => last.out.val = <<"s","k","y">>
            /\ w = <<"s","k","i","e","s">> => last.out.val = <<"s","k","y">>
            /\ w = <<"d","y","i","n","g">> =>
                last.out.val = IF mode = "NLTK_EXTENSIONS"
                               THEN <<"d","i","e">>
                               ELSE <<"d","y">>

\* witness of C2: an Extended-only key was found in the table
C2_Witness ==
    /\ StemWordEnded
    /\ mode = "NLTK_EXTENSIONS"
    /\ Lower(last.arg.val) = <<"d","y","i","n","g">>
    /\ last.arg.val # Lower(last.arg.val)
    /\ Lower(last.out.val) = <<"d","i","e">>
    /\ StageNames = <<"lookup">>

EntryChecks ==
    /\ (last.op = "stem_word" /\ last.arg.type = "NoneType")
        => last.out.kind = "ValueError"
    /\ (last.op = "stem_word" /\ last.arg.type = "str" /\ Len(last.arg.val) = 0)
        => last.out.kind = "ValueError"
    /\ (last.op = "stem_word" /\ last.arg.type \notin {"NoneType", "str"})
        => last.out.kind = "TypeError"
    /\ (last.op = "stem_document" /\ last.arg.type = "NoneType")
        => last.out.kind = "ValueError"
    /\ (last.op = "stem_document" /\ last.arg.type \notin {"NoneType", "str"})
        => last.out.kind = "TypeError"
    /\ (last.op = "stem_tokens" /\ last.arg.type = "NoneType")
        => last.out.kind = "ValueError"
    /\ (last.op = "stem_tokens" /\ last.arg.type \notin {"NoneType", "list"})
        => last.out.kind = "TypeError"

\* a stem_tokens call on a list with an element that is no string has ended
TokensWithNonString ==
    /\ pc = "returned"
    /\ last.op = "stem_tokens"
    /\ last.arg.type = "list"
    /\ \E k \in 1..Len(last.arg.val) : last.arg.val[k].type # "str"

\* 0-based indexes of the elements that are no strings
NonStringIndexes(tokens) == {k \in 0..(Len(tokens) - 1) : tokens[k + 1].type # "str"}

Least(S) == CHOOSE k \in S : \A j \in S : k <= j

C5_PipelineFailureHandled ==
    (StemWordEnded /\ fault # "none") =>
        IF preserve_original_on_error
        THEN last.out = Return(last.arg.val)
        ELSE /\ last.out.kind = "RuntimeError"
             /\ last.out.val = last.arg.val
             /\ last.out.cause = "ValueError"

\* witness of C5: a guard of a step raised on a word with an upper-case
\* letter, and the word came back as passed
C5_Witness ==
    /\ StemWordEnded
    /\ fault \in {EightSteps[i] : i \in 1..8}
    /\ preserve_original_on_error
    /\ last.arg.val # Lower(last.arg.val)
    /\ last.out = Return(last.arg.val)

\* C6 as stated: a token list with an empty string makes stem_tokens fail.
C6_EmptyTokenFails ==
    (/\ pc = "returned"
     /\ last.op = "stem_tokens"
     /\ last.arg.type = "list"
     /\ \E k \in 1..Len(last.arg.val) : last.arg.val[k] = PyStr(<<>>))
        => last.out.kind # "return"

\* a stem_tokens call on a list of non-empty strings of the letters A-Z and
\* a-z has ended
TokensAllAlphabetic ==
    /\ pc = "returned"
    /\ last.op = "stem_tokens"
    /\ last.arg.type = "list"
    /\ \A k \in 1..Len(last.arg.val) :
        /\ last.arg.val[k].type = "str"
        /\ Len(last.arg.val[k].val) > 0
        /\ AsciiLetters(last.arg.val[k].val)

\* C7: for a list of non-empty strings of letters stem_tokens returns a list
\* of the same length whose element i is stem_word(tokens[i]) under the same
\* configuration ([running, flies, happily] -> [run, fli, happili]).
C7_TokensElementwise ==
    TokensAllAlphabetic =>
        /\ last.out.kind = "return"
        /\ Len(last.out.val) = Len(last.arg.val)
        /\ \A k \in 1..Len(last.arg.val) :
            /\ StemWord(Self, last.arg.val[k]).kind = "return"
            /\ last.out.val[k] = StemWord(Self, last.arg.val[k]).val
        /\ last.arg.val = <<PyStr(<<"r","u","n","n","i","n","g">>),
                            PyStr(<<"f","l","i","e","s">>),
                            PyStr(<<"h","a","p","p","i","l","y">>)>>
           => Lower(Concat(last.out.val)) = <<"r","u","n","f","l","i","h","a","p","p","i","l","i">>

\* witness of C7: the three tokens of the example, each of them stemmed
C7_Witness ==
    /\ TokensAllAlphabetic
    /\ last.arg.val = <<PyStr(<<"r","u","n","n","i","n","g">>),
                        PyStr(<<"f","l","i","e","s">>),
                        PyStr(<<"h","a","p","p","i","l","y">>)>>
    /\ last.out.val = <<<<"r","u","n">>,
                        <<"f","l","i">>,
                        <<"h","a","p","p","i","l","i">>>>

\* a stem_document call without cleaning on a string has ended
DocumentEnded ==
    /\ pc = "returned"
    /\ last.op = "stem_document"
    /\ last.arg.type = "str"
    /\ ~last.clean

\* the text with every maximal run of letters, from position i on, replaced
\* by its stem
RECURSIVE LetterRunsStemmed(_, _, _)
LetterRunsStemmed(self, text, i) ==
    IF i > Len(text) THEN <<>>
    ELSE IF ~IsAlphaChar(text[i])
         THEN <<text[i]>> \o LetterRunsStemmed(self, text, i + 1)
    ELSE LET j == CHOOSE e \in i..Len(text) :
                    /\ \A k \in i..e : IsAlphaChar(text[k])
                    /\ e = Len(text) \/ ~IsAlphaChar(text[e + 1])
             stem == StemWord(self, PyStr(SubSeq(text, i, j)))
         IN  (IF stem.kind = "return" THEN stem.val ELSE SubSeq(text, i, j))
                 \o LetterRunsStemmed(self, text, j + 1)

\* C8 as stated: without cleaning, stem_document replaces every maximal run
\* of letters by its stem, whatever characters stand next to the run.
C8_EveryLetterRunStemmed ==
    DocumentEnded =>
        /\ last.out.kind = "return"
        /\ last.out.val = LetterRunsStemmed(Self, last.arg.val, 1)

\* the characters of a text that are no letters, in order
Skeleton(text) == SelectSeq(text, LAMBDA c : ~IsAlphaChar(c))

\* the text with every maximal run of letters shrunk to one mark
RECURSIVE Shape(_)
Shape(text) ==
    IF Len(text) = 0 THEN <<>>
    ELSE IF ~IsAlphaChar(text[1]) THEN <<text[1]>> \o Shape(Tail(text))
    ELSE IF Len(text) > 1 /\ IsAlphaChar(text[2]) THEN Shape(Tail(text))
    ELSE <<"<letters>">> \o Shape(Tail(text))

\* C9 as stated: without cleaning, the text and the output of stem_document
\* have the same characters that are no letters, in the same order, and the
\* same letter runs between them: none added, removed, merged or split.
C9_SkeletonPreserved ==
    DocumentEnded =>
        /\ last.out.kind = "return"
        /\ Skeleton(last.out.val) = Skeleton(last.arg.val)
        /\ Shape(last.out.val) = Shape(last.arg.val)

\* C10: no call changes to_lowercase, preserve_original_on_error, mode or an
\* irregular table, so whenever stem_word ends its outcome is the one that
\* its argument and the fields set at construction determine.
C10_ConfigurationFixed ==
    /\ Self = constructed
    /\ (pc = "returned" /\ last.op = "stem_word")
        => last.out = StemWord(constructed, last.arg)

\* witness of C10: stem_word stems a word after earlier calls, one of which
\* raised
C10_Witness ==
    /\ StemWordEnded
    /\ failed
    /\ last.out.kind = "return"
    /\ last.out.val # last.arg.val
    /\ last.out = StemWord(constructed, last.arg)

\* C11: with to_lowercase off, the result of stem_word on a word of letters
\* has the casing of the word: all upper-case for an all-upper-case word, all
\* lower-case for an all-lower-case word, and otherwise upper-case at exactly
\* the positions where the word is; irregular words and words of at most two
\* letters included (Running -> Run, FLIES -> FLI, HaPpIlY -> HaPpIlI).
C11_CasingFollowsOriginal ==
    (StemWordEnded /\ ~to_lowercase /\ AsciiLetters(last.arg.val)) =>
        LET w == last.arg.val
            r == last.out.val
        IN  /\ last.out.kind = "return"
            /\ Len(r) > 0
            /\ IsUpper(w) => \A i \in 1..Len(r) : r[i] \in UpperSet
            /\ IsLower(w) => \A i \in 1..Len(r) : r[i] \in LowerSet
            /\ \A i \in 1..Len(r) :
                /\ i <= Len(w)
                /\ r[i] \in UpperSet <=> w[i] \in UpperSet
            /\ w = <<"R","u","n","n","i","n","g">> => r = <<"R","u","n">>
            /\ w = <<"F","L","I","E","S">> => r = <<"F","L","I">>
            /\ w = <<"H","a","P","p","I","l","Y">> => r = <<"H","a","P","p","I","l","I">>

\* witness of C11: a mixed-case irregular word and its stem, cased alike
C11_Witness ==
    /\ StemWordEnded
    /\ ~to_lowercase
    /\ last.arg.val = <<"s","K","I","e","s">>
    /\ last.out.val = <<"s","K","Y">>
    /\ StageNames = <<"lookup">>

\* a stem_document call with cleaning on a string has ended
CleanedDocumentEnded ==
    /\ pc = "returned"
    /\ last.op = "stem_document"
    /\ last.arg.type = "str"
    /\ last.clean

\* neither on the deny-list nor whitespace
Kept(c) == c \notin CharactersToRemove /\ c \notin Whitespace

\* the maximal runs of kept characters of the text, joined by single spaces
RECURSIVE KeptRunsJoined(_)
KeptRunsJoined(text) ==
    IF \A i \in 1..Len(text) : ~Kept(text[i]) THEN <<>>
    ELSE IF ~Kept(text[1]) THEN KeptRunsJoined(Tail(text))
    ELSE LET e == CHOOSE j \in 1..Len(text) :
                    /\ \A k \in 1..j : Kept(text[k])
                    /\ j = Len(text) \/ ~Kept(text[j + 1])
             rest == KeptRunsJoined(SubSeq(text, e + 1, Len(text)))
         IN  SubSeq(text, 1, e) \o (IF Len(rest) = 0 THEN <<>> ELSE <<" ">> \o rest)

IsAlnumChar(c) == IsAlphaChar(c) \/ c \in DigitSet

OtherMode == IF mode = "ORIGINAL" THEN "NLTK_EXTENSIONS" ELSE "ORIGINAL"

\* the instance as it would be had it been constructed for the other dialect
OtherSelf == [Self EXCEPT !.mode = OtherMode]

\* C14: steps 1b, 2, 3, 4, 5a and 5b give the same output for the same input
\* in both modes, step 1a does unless the input is a 4-letter word in ies,
\* step 1c does unless the input ends in y; so a word that is no
\* Extended-only key, no 4-letter word in ies and does not reach step 1c
\* with a final y has the same outcome of stem_word in both modes.
C14_DialectsAgree ==
    /\ pc = "returned" => \A i \in 1..Len(StepEntries) :
        LET e == StepEntries[i]
        IN  /\ e.step \notin {"step1a", "step1c"}
                => e.out = ApplyStep(e.step, e.in, OtherMode)
            /\ (e.step = "step1a" /\ ~(Len(e.in) = 4 /\ EndsWith(e.in, <<"i","e","s">>)))
                => e.out = ApplyStep(e.step, e.in, OtherMode)
            /\ (e.step = "step1c" /\ ~EndsWith(e.in, <<"y">>))
                => e.out = ApplyStep(e.step, e.in, OtherMode)
    /\ (/\ StemWordEnded
        /\ Lower(last.arg.val) \notin ExtendedOnlyKeys
        /\ ~(Len(Lower(last.arg.val)) = 4 /\ EndsWith(Lower(last.arg.val), <<"i","e","s">>))
        /\ \A i \in 1..Len(StepEntries) :
            StepEntries[i].step = "step1c" => ~EndsWith(StepEntries[i].in, <<"y">>))
       => last.out = StemWord(OtherSelf, last.arg)

\* witness of C14: a word in ies of more than four letters, cut by step 1a
\* and stemmed alike in both modes
C14_Witness ==
    /\ StemWordEnded
    /\ Len(StepEntries) = 8
    /\ EndsWith(Lower(last.arg.val), <<"i","e","s">>)
    /\ StepEntries[1].out # StepEntries[1].in
    /\ last.out = StemWord(OtherSelf, last.arg)
    /\ last.out.kind = "return"

\* an _is_consonant call on a lower-case word and a valid index has ended
IsConsonantEnded ==
    /\ pc = "returned"
    /\ last.op = "_is_consonant"
    /\ Len(last.arg.val[1]) > 0
    /\ \A i \in 1..Len(last.arg.val[1]) : last.arg.val[1][i] \in LowerSet
    /\ last.arg.val[2] < Len(last.arg.val[1])

\* the classes of the letters of a lower-case word, assigned left to right:
\* TRUE for a consonant
RECURSIVE LeftToRightClasses(_)
LeftToRightClasses(w) ==
    IF Len(w) = 0 THEN <<>>
    ELSE LET before == LeftToRightClasses(DropLast(w, 1))
             c == w[Len(w)]
         IN  before \o
             << IF c \in {"a", "e", "i", "o", "u"} THEN FALSE
                ELSE IF c = "y" /\ Len(w) > 1 THEN ~before[Len(w) - 1]
                ELSE TRUE >>

\* the letters of the word that are consonants, in order
ConsonantsOf(w) ==
    LET classes == LeftToRightClasses(w)
        RECURSIVE Pick(_)
        Pick(i) == IF i > Len(w) THEN <<>>
                   ELSE (IF classes[i] THEN <<w[i]>> ELSE <<>>) \o Pick(i + 1)
    IN  Pick(1)

MeasureEnded ==
    /\ pc = "returned"
    /\ last.op = "_measure"
    /\ \A i \in 1..Len(last.arg.val) : last.arg.val[i] \in LowerSet

\* the reference measure: a scan that skips the leading consonants and then
\* counts every passage from a run of vowels to a run of consonants.
\* classes is the word's sequence of classes, TRUE for a consonant.
RECURSIVE ReferenceScan(_, _, _, _)
ReferenceScan(classes, i, phase, n) ==
    IF i > Len(classes) THEN n
    ELSE IF phase = "leading"
         THEN IF classes[i] THEN ReferenceScan(classes, i + 1, "leading", n)
              ELSE ReferenceScan(classes, i + 1, "vowels", n)
    ELSE IF phase = "vowels"
         THEN IF classes[i] THEN ReferenceScan(classes, i + 1, "consonants", n + 1)
              ELSE ReferenceScan(classes, i + 1, "vowels", n)
    ELSE IF classes[i] THEN ReferenceScan(classes, i + 1, "consonants", n)
         ELSE ReferenceScan(classes, i + 1, "vowels", n)

ReferenceMeasure(w) == ReferenceScan(LeftToRightClasses(w), 1, "leading", 0)

\* the classes with every run shrunk to one entry
RECURSIVE Runs(_)
Runs(classes) ==
    IF Len(classes) <= 1 THEN classes
    ELSE IF classes[1] = classes[2] THEN Runs(Tail(classes))
    ELSE <<classes[1]>> \o Runs(Tail(classes))

\* m of [C](VC)^m[V]: the runs without a leading C and a trailing V are
\* m pairs of a V and a C
CanonicalM(w) ==
    LET runs == Runs(LeftToRightClasses(w))
        noC == IF Len(runs) > 0 /\ runs[1] THEN Tail(runs) ELSE runs
        noV == IF Len(noC) > 0 /\ ~noC[Len(noC)] THEN DropLast(noC, 1) ELSE noC
    IN  Len(noV) \div 2

\* the measures stated for the words of the paper
PaperMeasures ==
    (<<"t","r">> :> 0) @@ (<<"e","e">> :> 0) @@ (<<"t","r","e","e">> :> 0) @@
    (<<"y">> :> 0) @@ (<<"b","y">> :> 0) @@
    (<<"t","r","o","u","b","l","e">> :> 1) @@ (<<"o","a","t","s">> :> 1) @@
    (<<"t","r","e","e","s">> :> 1) @@ (<<"i","v","y">> :> 1) @@
    (<<"t","r","o","u","b","l","e","s">> :> 2) @@
    (<<"p","r","i","v","a","t","e">> :> 2) @@
    (<<"o","a","t","e","n">> :> 2) @@ (<<"o","r","r","e","r","y">> :> 2)

\* C16: on a lower-case word _measure, the number of adjacent vowel-consonant
\* pairs of the pattern, is the m of [C](VC)^m[V] and the value of the
\* reference scan; the empty word has measure 0 (0 for tr, ee, tree, y, by;
\* 1 for trouble, oats, trees, ivy; 2 for troubles, private, oaten, orrery).
C16_MeasureIsCanonical ==
    MeasureEnded =>
        LET w == last.arg.val
        IN  /\ last.out.kind = "return"
            /\ last.out.val = CanonicalM(w)
            /\ last.out.val = ReferenceMeasure(w)
            /\ w = <<>> => last.out.val = 0
            /\ w \in DOMAIN PaperMeasures => last.out.val = PaperMeasures[w]

\* witness of C16: orrery, whose final y is a vowel, has measure 2
C16_Witness ==
    /\ MeasureEnded
    /\ last.arg.val = <<"o","r","r","e","r","y">>
    /\ last.out = Return(2)

\* the entries made by one step in the trace of the call that has ended
EntriesOf(step) == SelectSeq(trace, LAMBDA e : e.step = step)

\* the rules of step 1a in priority order: suffix, letters removed, and
\* whether the rule is for 4-letter words in NLTK_EXTENSIONS mode only
Step1aRules ==
    << [suffix |-> <<"s","s","e","s">>, cut |-> 2, extended |-> FALSE],
       [suffix |-> <<"i","e","s">>,     cut |-> 1, extended |-> TRUE],
       [suffix |-> <<"i","e","s">>,     cut |-> 2, extended |-> FALSE],
       [suffix |-> <<"s","s">>,         cut |-> 0, extended |-> FALSE],
       [suffix |-> <<"s">>,             cut |-> 1, extended |-> FALSE] >>

\* rule k of step 1a applies to the word
Step1aRuleApplies(k, w) ==
    /\ EndsWith(w, Step1aRules[k].suffix)
    /\ Step1aRules[k].extended => (mode = "NLTK_EXTENSIONS" /\ Len(w) = 4)

\* C17: step 1a applies the first rule of its priority list that matches and
\* no other: sses loses es; in NLTK_EXTENSIONS mode a 4-letter word in ies
\* loses s; ies loses es; ss stays as it is; s is removed; a word that
\* matches no rule is unchanged (caresses -> caress, ponies -> poni,
\* caress -> caress, cats -> cat; ORIGINAL dies -> di).
C17_Step1aFirstRuleOnly ==
    pc = "returned" => \A n \in 1..Len(EntriesOf("step1a")) :
        LET e == EntriesOf("step1a")[n]
            matching == {k \in 1..Len(Step1aRules) : Step1aRuleApplies(k, e.in)}
        IN  /\ matching = {} => e.out = e.in
            /\ matching # {} =>
                e.out = DropLast(e.in, Step1aRules[Least(matching)].cut)
            /\ e.in = <<"c","a","r","e","s","s","e","s">> => e.out = <<"c","a","r","e","s","s">>
            /\ e.in = <<"p","o","n","i","e","s">> => e.out = <<"p","o","n","i">>
            /\ e.in = <<"c","a","r","e","s","s">> => e.out = e.in
            /\ e.in = <<"c","a","t","s">> => e.out = <<"c","a","t">>
            /\ (e.in = <<"d","i","e","s">> /\ mode = "ORIGINAL") => e.out = <<"d","i">>
            /\ (e.in = <<"p","i","e","s">> /\ mode = "NLTK_EXTENSIONS") => e.out = <<"p","i","e">>

\* witness of C17: step 1a left caress, which also ends in s, as it was
C17_Witness ==
    /\ Len(EntriesOf("step1a")) = 1
    /\ EntriesOf("step1a")[1].in = <<"c","a","r","e","s","s">>
    /\ EntriesOf("step1a")[1].out = <<"c","a","r","e","s","s">>
    /\ pc = "step1b"

\* the buffer is made of lower-case letters
LowerLettersOnly(w) == \A i \in 1..Len(w) : w[i] \in LowerSet

\* the buffer has a letter that is a vowel when classified from the left
HasVowel(w) == \E i \in 1..Len(w) : ~LeftToRightClasses(w)[i]

\* C18: step 1b turns a word in eed into stem + ee when m(stem) > 0, stem
\* being the word without eed, and leaves it unchanged otherwise; the ed
\* rule does not act on a word in eed, not even when the guard fails and the
\* part before ed has a vowel (feed stays feed, agreed becomes agree).
C18_EedRuleAlone ==
    pc = "returned" => \A n \in 1..Len(EntriesOf("step1b")) :
        LET e == EntriesOf("step1b")[n]
            stem == DropLast(e.in, 3)
        IN  (EndsWith(e.in, <<"e","e","d">>) /\ LowerLettersOnly(e.in)) =>
                /\ ReferenceMeasure(stem) > 0 => e.out = stem \o <<"e","e">>
                /\ ReferenceMeasure(stem) = 0 => e.out = e.in
                /\ e.in = <<"f","e","e","d">> => e.out = <<"f","e","e","d">>
                /\ e.in = <<"a","g","r","e","e","d">> => e.out = <<"a","g","r","e","e">>

\* witness of C18: the guard failed on a word in eed with a vowel before ed,
\* and the word went on unchanged
C18_Witness ==
    /\ Len(EntriesOf("step1b")) = 1
    /\ pc = "step1c"
    /\ LET e == EntriesOf("step1b")[1]
       IN  /\ EndsWith(e.in, <<"e","e","d">>)
           /\ Len(e.in) > 3
           /\ LowerLettersOnly(e.in)
           /\ ReferenceMeasure(DropLast(e.in, 3)) = 0
           /\ HasVowel(DropLast(e.in, 2))
           /\ e.out = e.in

\* the last two letters are equal and the last one is a consonant
DoubleConsonantEnd(r) ==
    /\ Len(r) >= 2
    /\ r[Len(r)] = r[Len(r) - 1]
    /\ LeftToRightClasses(r)[Len(r)]

\* the last three letters are consonant, vowel, consonant, the last one not
\* w, x or y
CvcEnd(r) ==
    /\ Len(r) >= 3
    /\ LeftToRightClasses(r)[Len(r) - 2]
    /\ ~LeftToRightClasses(r)[Len(r) - 1]
    /\ LeftToRightClasses(r)[Len(r)]
    /\ r[Len(r)] \notin {"w", "x", "y"}

\* the remainder after the one post-fix that applies, if any
PostFixed(r) ==
    IF \/ EndsWith(r, <<"a","t">>)
       \/ EndsWith(r, <<"b","l">>)
       \/ EndsWith(r, <<"i","z">>)
    THEN r \o <<"e">>
    ELSE IF DoubleConsonantEnd(r) /\ r[Len(r)] \notin {"l", "s", "z"}
    THEN DropLast(r, 1)
    ELSE IF ReferenceMeasure(r) = 1 /\ CvcEnd(r)
    THEN r \o <<"e">>
    ELSE r

\* C19: step 1b on a word in ed or ing that is not in eed: when the
\* remainder has no vowel the word is unchanged (bled, sing); otherwise the
\* suffix goes and one post-fix at most is applied to the remainder, the
\* first that matches of: ends in at, bl or iz -> add e; ends in a double
\* consonant (two equal letters, the last a consonant) other than l, s, z ->
\* drop the last letter; m = 1 and ends consonant-vowel-consonant, the last
\* not w, x, y -> add e (hopping -> hop, filing -> file, falling -> fall).
C19_EdIngRemoval ==
    pc = "returned" => \A n \in 1..Len(EntriesOf("step1b")) :
        LET e == EntriesOf("step1b")[n]
            r == IF EndsWith(e.in, <<"e","d">>) THEN DropLast(e.in, 2)
                 ELSE DropLast(e.in, 3)
        IN  (/\ LowerLettersOnly(e.in)
             /\ ~EndsWith(e.in, <<"e","e","d">>)
             /\ EndsWith(e.in, <<"e","d">>) \/ EndsWith(e.in, <<"i","n","g">>)) =>
                /\ ~HasVowel(r) => e.out = e.in
                /\ HasVowel(r) => e.out = PostFixed(r)
                /\ e.in = <<"b","l","e","d">> => e.out = e.in
                /\ e.in = <<"s","i","n","g">> => e.out = e.in
                /\ e.in = <<"h","o","p","p","i","n","g">> => e.out = <<"h","o","p">>
                /\ e.in = <<"f","i","l","i","n","g">> => e.out = <<"f","i","l","e">>
                /\ e.in = <<"f","a","l","l","i","n","g">> => e.out = <<"f","a","l","l">>

\* witness of C19: falling lost ing and kept its double l, although the
\* remainder has a vowel
C19_Witness ==
    /\ Len(EntriesOf("step1b")) = 1
    /\ pc = "step1c"
    /\ EntriesOf("step1b")[1].in = <<"f","a","l","l","i","n","g">>
    /\ EntriesOf("step1b")[1].out = <<"f","a","l","l">>
    /\ DoubleConsonantEnd(EntriesOf("step1b")[1].out)

\* the guard of step 1c on the stem, for the instance's dialect
Step1cGuard(stem) ==
    IF mode = "ORIGINAL" THEN HasVowel(stem)
    ELSE Len(stem) > 1 /\ LeftToRightClasses(stem)[Len(stem)]

\* what step 1c makes of four words in each dialect
Step1cExamples ==
    IF mode = "ORIGINAL"
    THEN (<<"h","a","p","p","y">> :> <<"h","a","p","p","i">>) @@
         (<<"c","r","y">> :> <<"c","r","y">>) @@
         (<<"s","a","y">> :> <<"s","a","i">>) @@
         (<<"e","n","j","o","y">> :> <<"e","n","j","o","i">>)
    ELSE (<<"h","a","p","p","y">> :> <<"h","a","p","p","i">>) @@
         (<<"c","r","y">> :> <<"c","r","i">>) @@
         (<<"s","a","y">> :> <<"s","a","y">>) @@
         (<<"e","n","j","o","y">> :> <<"e","n","j","o","y">>)

\* C20: step 1c turns a final y into i iff the guard of the dialect holds on
\* the stem, the word without the y: in ORIGINAL mode the stem has a vowel,
\* in NLTK_EXTENSIONS mode the stem has more than one letter and ends in a
\* consonant; otherwise, and on a word without a final y, the word is
\* unchanged (ORIGINAL: happy -> happi, cry -> cry, say -> sai,
\* enjoy -> enjoi; NLTK_EXTENSIONS: happy -> happi, cry -> cri, say -> say,
\* enjoy -> enjoy).
C20_Step1cGuard ==
    pc = "returned" => \A n \in 1..Len(EntriesOf("step1c")) :
        LET e == EntriesOf("step1c")[n]
            stem == DropLast(e.in, 1)
        IN  LowerLettersOnly(e.in) =>
                /\ ~EndsWith(e.in, <<"y">>) => e.out = e.in
                /\ EndsWith(e.in, <<"y">>) =>
                    /\ e.out \in {e.in, stem \o <<"i">>}
                    /\ e.out = stem \o <<"i">> <=> Step1cGuard(stem)
                /\ e.in \in DOMAIN Step1cExamples => e.out = Step1cExamples[e.in]

\* witness of C20: a stem of one vowel, which only the ORIGINAL guard accepts
C20_Witness ==
    /\ Len(EntriesOf("step1c")) = 1
    /\ pc = "step2"
    /\ mode = "ORIGINAL"
    /\ EntriesOf("step1c")[1].in = <<"a","y">>
    /\ EntriesOf("step1c")[1].out = <<"a","i">>

\* what a table of (suffix, replacement) rows with the guard m(stem) > 0
\* makes of a word when only the first row the word ends with is considered
FirstRowOnly(w, table) ==
    LET ending == {k \in 1..Len(table) : EndsWith(w, table[k][1])}
    IN  IF ending = {} THEN w
        ELSE LET row == table[Least(ending)]
                 stem == DropLast(w, Len(row[1]))
             IN  IF ReferenceMeasure(stem) > 0 THEN stem \o row[2] ELSE w

\* the results of step 2 on the words of test_original_mode, and on two
\* words whose guard fails
Step2Examples ==
    (<<"r","e","l","a","t","i","o","n","a","l">> :> <<"r","e","l","a","t","e">>) @@
    (<<"c","o","n","d","i","t","i","o","n","a","l">> :> <<"c","o","n","d","i","t","i","o","n">>) @@
    (<<"v","a","l","e","n","c","i">> :> <<"v","a","l","e","n","c","e">>) @@
    (<<"d","i","g","i","t","i","z","e","r">> :> <<"d","i","g","i","t","i","z","e">>) @@
    (<<"c","o","n","f","o","r","m","a","b","l","i">> :> <<"c","o","n","f","o","r","m","a","b","l","e">>) @@
    (<<"v","i","e","t","n","a","m","i","z","a","t","i","o","n">> :> <<"v","i","e","t","n","a","m","i","z","e">>) @@
    (<<"r","i","z","a","t","i","o","n">> :> <<"r","i","z","a","t","i","o","n">>) @@
    (<<"r","a","t","i","o","n","a","l">> :> <<"r","a","t","i","o","n","a","l">>)

\* the results of step 3 on the words of test_original_mode
Step3Examples ==
    (<<"t","r","i","p","l","i","c","a","t","e">> :> <<"t","r","i","p","l","i","c">>) @@
    (<<"f","o","r","m","a","t","i","v","e">> :> <<"f","o","r","m">>) @@
    (<<"f","o","r","m","a","l","i","z","e">> :> <<"f","o","r","m","a","l">>) @@
    (<<"e","l","e","c","t","r","i","c","i","t","i">> :> <<"e","l","e","c","t","r","i","c">>) @@
    (<<"h","o","p","e","f","u","l">> :> <<"h","o","p","e">>)

\* C21: steps 2 and 3 consider only the first suffix of their table, in
\* table order, that the word ends with: it is replaced iff m(stem) > 0;
\* when that guard fails the word is returned unchanged and no later
\* suffix is tried; a word ending in no suffix of the table is unchanged
\* (rization ends in ization, whose stem r has m = 0, and stays, although
\* the later ation has the stem riz with m = 1).
C21_FirstSuffixOnly ==
    pc = "returned" =>
        /\ \A n \in 1..Len(EntriesOf("step2")) :
            LET e == EntriesOf("step2")[n]
            IN  LowerLettersOnly(e.in) =>
                    /\ e.out = FirstRowOnly(e.in, Step2Mappings)
                    /\ e.in \in DOMAIN Step2Examples => e.out = Step2Examples[e.in]
        /\ \A n \in 1..Len(EntriesOf("step3")) :
            LET e == EntriesOf("step3")[n]
            IN  LowerLettersOnly(e.in) =>
                    /\ e.out = FirstRowOnly(e.in, Step3Mappings)
                    /\ e.in \in DOMAIN Step3Examples => e.out = Step3Examples[e.in]

\* witness of C21: step 2 left rization unchanged
C21_Witness ==
    /\ pc = "step3"
    /\ Len(EntriesOf("step2")) = 1
    /\ EntriesOf("step2")[1].in = <<"r","i","z","a","t","i","o","n">>
    /\ EntriesOf("step2")[1].out = <<"r","i","z","a","t","i","o","n">>

\* the 20 rows listed for step 2
Step2Listed ==
    <<<<<<"a","t","i","o","n","a","l">>, <<"a","t","e">>>>,
      <<<<"t","i","o","n","a","l">>, <<"t","i","o","n">>>>,
      <<<<"e","n","c","i">>, <<"e","n","c","e">>>>,
      <<<<"a","n","c","i">>, <<"a","n","c","e">>>>,
      <<<<"i","z","e","r">>, <<"i","z","e">>>>,
      <<<<"b","l","i">>, <<"b","l","e">>>>,
      <<<<"a","l","l","i">>, <<"a","l">>>>,
      <<<<"e","n","t","l","i">>, <<"e","n","t">>>>,
      <<<<"e","l","i">>, <<"e">>>>,
      <<<<"o","u","s","l","i">>, <<"o","u","s">>>>,
      <<<<"i","z","a","t","i","o","n">>, <<"i","z","e">>>>,
      <<<<"a","t","i","o","n">>, <<"a","t","e">>>>,
      <<<<"a","t","o","r">>, <<"a","t","e">>>>,
      <<<<"a","l","i","s","m">>, <<"a","l">>>>,
      <<<<"i","v","e","n","e","s","s">>, <<"i","v","e">>>>,
      <<<<"f","u","l","n","e","s","s">>, <<"f","u","l">>>>,
      <<<<"o","u","s","n","e","s","s">>, <<"o","u","s">>>>,
      <<<<"a","l","i","t","i">>, <<"a","l">>>>,
      <<<<"i","v","i","t","i">>, <<"i","v","e">>>>,
      <<<<"b","i","l","i","t","i">>, <<"b","l","e">>>>>>

\* the words the paper gives for the rows of step 2, with their results
Step2PaperExamples ==
    (<<"r","e","l","a","t","i","o","n","a","l">> :> <<"r","e","l","a","t","e">>) @@
    (<<"c","o","n","d","i","t","i","o","n","a","l">> :> <<"c","o","n","d","i","t","i","o","n">>) @@
    (<<"r","a","t","i","o","n","a","l">> :> <<"r","a","t","i","o","n","a","l">>) @@
    (<<"v","a","l","e","n","c","i">> :> <<"v","a","l","e","n","c","e">>) @@
    (<<"h","e","s","i","t","a","n","c","i">> :> <<"h","e","s","i","t","a","n","c","e">>) @@
    (<<"d","i","g","i","t","i","z","e","r">> :> <<"d","i","g","i","t","i","z","e">>) @@
    (<<"c","o","n","f","o","r","m","a","b","l","i">> :> <<"c","o","n","f","o","r","m","a","b","l","e">>) @@
    (<<"r","a","d","i","c","a","l","l","i">> :> <<"r","a","d","i","c","a","l">>) @@
    (<<"d","i","f","f","e","r","e","n","t","l","i">> :> <<"d","i","f","f","e","r","e","n","t">>) @@
    (<<"v","i","l","e","l","i">> :> <<"v","i","l","e">>) @@
    (<<"a","n","a","l","o","g","o","u","s","l","i">> :> <<"a","n","a","l","o","g","o","u","s">>) @@
    (<<"v","i","e","t","n","a","m","i","z","a","t","i","o","n">> :> <<"v","i","e","t","n","a","m","i","z","e">>) @@
    (<<"p","r","e","d","i","c","a","t","i","o","n">> :> <<"p","r","e","d","i","c","a","t","e">>) @@
    (<<"o","p","e","r","a","t","o","r">> :> <<"o","p","e","r","a","t","e">>) @@
    (<<"f","e","u","d","a","l","i","s","m">> :> <<"f","e","u","d","a","l">>) @@
    (<<"d","e","c","i","s","i","v","e","n","e","s","s">> :> <<"d","e","c","i","s","i","v","e">>) @@
    (<<"h","o","p","e","f","u","l","n","e","s","s">> :> <<"h","o","p","e","f","u","l">>) @@
    (<<"c","a","l","l","o","u","s","n","e","s","s">> :> <<"c","a","l","l","o","u","s">>) @@
    (<<"f","o","r","m","a","l","i","t","i">> :> <<"f","o","r","m","a","l">>) @@
    (<<"s","e","n","s","i","t","i","v","i","t","i">> :> <<"s","e","n","s","i","t","i","v","e">>) @@
    (<<"s","e","n","s","i","b","i","l","i","t","i">> :> <<"s","e","n","s","i","b","l","e">>)

\* a word ends with the suffix of some row of the table
EndsInRow(w, table) == \E k \in 1..Len(table) : EndsWith(w, table[k][1])

\* C22 as stated: the table of step 2 is the 20 listed rows, so that a word
\* ending in none of the 20 suffixes leaves step 2 unchanged.
C22_AsStated ==
    pc = "returned" => \A n \in 1..Len(EntriesOf("step2")) :
        LET e == EntriesOf("step2")[n]
        IN  (LowerLettersOnly(e.in) /\ ~EndsInRow(e.in, Step2Listed)) => e.out = e.in

\* C22: in both dialects the table of step 2 is the 20 listed rows, in the
\* listed order, followed by a 21st row logi -> log: step 2 does to a word
\* what the first row of these 21 that the word ends with says, and a word
\* that ends in none of the 21 suffixes is unchanged.
C22_Step2Table ==
    pc = "returned" => \A n \in 1..Len(EntriesOf("step2")) :
        LET e == EntriesOf("step2")[n]
            rows == Step2Listed \o << <<<<"l","o","g","i">>, <<"l","o","g">>>> >>
        IN  LowerLettersOnly(e.in) =>
                /\ e.out = FirstRowOnly(e.in, rows)
                /\ ~EndsInRow(e.in, rows) => e.out = e.in
                /\ e.in \in DOMAIN Step2PaperExamples => e.out = Step2PaperExamples[e.in]
                /\ e.in = <<"a","p","o","l","o","g","i">> => e.out = <<"a","p","o","l","o","g">>

\* witness of C22: step 2 turned the apologi that step 1c made of apology
\* into apolog
C22_Witness ==
    /\ pc = "step3"
    /\ original_word = <<"a","p","o","l","o","g","y">>
    /\ Len(EntriesOf("step2")) = 1
    /\ EntriesOf("step2")[1].in = <<"a","p","o","l","o","g","i">>
    /\ EntriesOf("step2")[1].out = <<"a","p","o","l","o","g">>

\* the 18 suffixes listed for step 4
Step4Listed ==
    <<<<"a","l">>,
      <<"a","n","c","e">>,
      <<"e","n","c","e">>,
      <<"e","r">>,
      <<"i","c">>,
      <<"a","b","l","e">>,
      <<"i","b","l","e">>,
      <<"a","n","t">>,
      <<"e","m","e","n","t">>,
      <<"m","e","n","t">>,
      <<"e","n","t">>,
      <<"o","u">>,
      <<"i","s","m">>,
      <<"a","t","e">>,
      <<"i","t","i">>,
      <<"o","u","s">>,
      <<"i","v","e">>,
      <<"i","z","e">>>>

\* the final ion of the word goes: the letter before it is s or t and the
\* stem has m > 1
IonGoes(w) ==
    LET stem == DropLast(w, 3)
    IN  /\ EndsWith(w, <<"i","o","n">>)
        /\ Len(stem) > 0
        /\ stem[Len(stem)] \in {"s", "t"}
        /\ ReferenceMeasure(stem) > 1

\* what the scan of the 18 suffixes makes of a word: the first suffix the
\* word ends with is removed when its stem has m > 1
ScanOfListed(w) ==
    LET ending == {k \in 1..Len(Step4Listed) : EndsWith(w, Step4Listed[k])}
    IN  IF ending = {} THEN w
        ELSE LET stem == DropLast(w, Len(Step4Listed[Least(ending)]))
             IN  IF ReferenceMeasure(stem) > 1 THEN stem ELSE w

\* results of step 4: the words of test_original_mode and of the paper, and
\* words whose guard fails
Step4Examples ==
    (<<"r","e","v","i","v","a","l">> :> <<"r","e","v","i","v">>) @@
    (<<"a","l","l","o","w","a","n","c","e">> :> <<"a","l","l","o","w">>) @@
    (<<"i","n","f","e","r","e","n","c","e">> :> <<"i","n","f","e","r">>) @@
    (<<"a","i","r","l","i","n","e","r">> :> <<"a","i","r","l","i","n">>) @@
    (<<"g","y","r","o","s","c","o","p","i","c">> :> <<"g","y","r","o","s","c","o","p">>) @@
    (<<"a","d","j","u","s","t","a","b","l","e">> :> <<"a","d","j","u","s","t">>) @@
    (<<"d","e","f","e","n","s","i","b","l","e">> :> <<"d","e","f","e","n","s">>) @@
    (<<"i","r","r","i","t","a","n","t">> :> <<"i","r","r","i","t">>) @@
    (<<"r","e","p","l","a","c","e","m","e","n","t">> :> <<"r","e","p","l","a","c">>) @@
    (<<"a","d","j","u","s","t","m","e","n","t">> :> <<"a","d","j","u","s","t">>) @@
    (<<"d","e","p","e","n","d","e","n","t">> :> <<"d","e","p","e","n","d">>) @@
    (<<"a","d","o","p","t","i","o","n">> :> <<"a","d","o","p","t">>) @@
    (<<"h","o","m","o","l","o","g","o","u">> :> <<"h","o","m","o","l","o","g">>) @@
    (<<"c","o","m","m","u","n","i","s","m">> :> <<"c","o","m","m","u","n">>) @@
    (<<"a","c","t","i","v","a","t","e">> :> <<"a","c","t","i","v">>) @@
    (<<"a","n","g","u","l","a","r","i","t","i">> :> <<"a","n","g","u","l","a","r">>) @@
    (<<"a","n","a","l","o","g","o","u","s">> :> <<"a","n","a","l","o","g">>) @@
    (<<"e","f","f","e","c","t","i","v","e">> :> <<"e","f","f","e","c","t">>) @@
    (<<"b","o","w","d","l","e","r","i","z","e">> :> <<"b","o","w","d","l","e","r">>) @@
    (<<"b","a","s","e","m","e","n","t">> :> <<"b","a","s","e","m","e","n","t">>) @@
    (<<"c","e","m","e","n","t">> :> <<"c","e","m","e","n","t">>) @@
    (<<"n","a","t","i","o","n">> :> <<"n","a","t","i","o","n">>) @@
    (<<"o","n","i","o","n">> :> <<"o","n","i","o","n">>) @@
    (<<"o","p","i","n","i","o","n">> :> <<"o","p","i","n","i","o","n">>)

\* C23: step 4 removes a final ion iff the letter before it is s or t and
\* m(stem) > 1; otherwise the 18 suffixes are scanned in order, the first
\* one the word ends with is removed iff m(stem) > 1, and when that guard
\* fails the word is unchanged and no later suffix is tried (adoption ->
\* adopt, revival -> reviv, adjustment -> adjust; basement stays, although
\* the later ent has the stem basem with m = 2).
C23_Step4IonAndTable ==
    pc = "returned" => \A n \in 1..Len(EntriesOf("step4")) :
        LET e == EntriesOf("step4")[n]
        IN  LowerLettersOnly(e.in) =>
                /\ EndsWith(e.in, <<"i","o","n">>) =>
                    /\ IonGoes(e.in) <=> e.out = DropLast(e.in, 3)
                    /\ ~IonGoes(e.in) => e.out = e.in
                /\ ~IonGoes(e.in) => e.out = ScanOfListed(e.in)
                /\ e.in \in DOMAIN Step4Examples => e.out = Step4Examples[e.in]

\* witness of C23: step 4 took the ion off adoption
C23_Witness ==
    /\ pc = "step5a"
    /\ Len(EntriesOf("step4")) = 1
    /\ EntriesOf("step4")[1].in = <<"a","d","o","p","t","i","o","n">>
    /\ EntriesOf("step4")[1].out = <<"a","d","o","p","t">>

\* C24: step 5a removes a final e iff, for the stem left without it,
\* m(stem) > 1, or m(stem) = 1 and the stem does not end consonant-vowel-
\* consonant with a last consonant other than w, x, y; with m(stem) = 0, or
\* m(stem) = 1 and such an ending, the word is unchanged, and so is a word
\* without a final e (probate -> probat, cease -> ceas, hope and rate stay).
C24_FinalE ==
    pc = "returned" => \A n \in 1..Len(EntriesOf("step5a")) :
        LET e == EntriesOf("step5a")[n]
            stem == DropLast(e.in, 1)
            m == ReferenceMeasure(stem)
        IN  LowerLettersOnly(e.in) =>
                /\ EndsWith(e.in, <<"e">>) =>
                    /\ e.out = stem <=> (m > 1 \/ (m = 1 /\ ~CvcEnd(stem)))
                    /\ (m = 0 \/ (m = 1 /\ CvcEnd(stem))) => e.out = e.in
                /\ ~EndsWith(e.in, <<"e">>) => e.out = e.in
                /\ e.in = <<"p","r","o","b","a","t","e">> => e.out = <<"p","r","o","b","a","t">>
                /\ e.in = <<"c","e","a","s","e">> => e.out = <<"c","e","a","s">>
                /\ e.in \in {<<"h","o","p","e">>, <<"r","a","t","e">>} => e.out = e.in

\* witness of C24: hop has m = 1 and ends consonant-vowel-consonant, and
\* step 5a left hope as it was
C24_Witness ==
    /\ pc = "step5b"
    /\ Len(EntriesOf("step5a")) = 1
    /\ EntriesOf("step5a")[1].in = <<"h","o","p","e">>
    /\ EntriesOf("step5a")[1].out = <<"h","o","p","e">>
    /\ ReferenceMeasure(<<"h","o","p">>) = 1
    /\ CvcEnd(<<"h","o","p">>)

\* C25: step 5b drops one l from a word in ll iff the word without its last
\* letter, which still ends in one l, has m > 1; the measure of the word
\* without both l's does not decide; any other word is unchanged (controll
\* -> control: control has m = 2 and contro m = 1; roll stays).
C25_DoubleL ==
    pc = "returned" => \A n \in 1..Len(EntriesOf("step5b")) :
        LET e == EntriesOf("step5b")[n]
            shorter == DropLast(e.in, 1)
        IN  LowerLettersOnly(e.in) =>
                /\ EndsWith(e.in, <<"l","l">>) =>
                    /\ ReferenceMeasure(shorter) > 1 => e.out = shorter
                    /\ ReferenceMeasure(shorter) <= 1 => e.out = e.in
                /\ ~EndsWith(e.in, <<"l","l">>) => e.out = e.in
                /\ e.in = <<"c","o","n","t","r","o","l","l">> => e.out = <<"c","o","n","t","r","o","l">>
                /\ e.in = <<"r","o","l","l">> => e.out = e.in

\* witness of C25: controll lost an l although contro has m = 1
C25_Witness ==
    /\ pc = "restore"
    /\ Len(EntriesOf("step5b")) = 1
    /\ EntriesOf("step5b")[1].in = <<"c","o","n","t","r","o","l","l">>
    /\ EntriesOf("step5b")[1].out = <<"c","o","n","t","r","o","l">>
    /\ ReferenceMeasure(<<"c","o","n","t","r","o">>) = 1
    /\ ReferenceMeasure(<<"c","o","n","t","r","o","l">>) = 2

\* a is a proper suffix of b
ProperSuffix(a, b) == Len(a) < Len(b) /\ EndsWith(b, a)

\* in a sequence of suffixes, a suffix that has another one of the sequence
\* as a proper suffix comes before it
LongerFirst(suffixes) ==
    \A j, k \in 1..Len(suffixes) :
        ProperSuffix(suffixes[k], suffixes[j]) => j < k

\* the suffixes of a table of rows, in row order
SuffixColumn(table) == [k \in 1..Len(table) |-> table[k][1]]

\* the suffixes of step 1a and of step 4 in the order the code tests them
Step1aSuffixes == [k \in 1..Len(Step1aRules) |-> Step1aRules[k].suffix]

Step4Order == << <<"i","o","n">> >> \o Step4Suffixes

\* the positions of the longest suffix of the sequence the word ends with
LongestEnding(w, suffixes) ==
    {k \in 1..Len(suffixes) :
        /\ EndsWith(w, suffixes[k])
        /\ \A j \in 1..Len(suffixes) :
            EndsWith(w, suffixes[j]) => Len(suffixes[j]) <= Len(suffixes[k])}

\* the first suffix of the sequence the word ends with is the longest one
FirstIsLongest(w, suffixes) ==
    LongestEnding(w, suffixes) # {} =>
        FirstMatch(w, suffixes) \in LongestEnding(w, suffixes)

\* what a table of rows does to a word when the row of the longest suffix
\* the word ends with is the one applied, under the guard m(stem) > 0
LongestRowOnly(w, table) ==
    LET longest == LongestEnding(w, SuffixColumn(table))
    IN  IF longest = {} THEN w
        ELSE LET row == table[Least(longest)]
                 stem == DropLast(w, Len(row[1]))
             IN  IF ReferenceMeasure(stem) > 0 THEN stem \o row[2] ELSE w

\* the same for step 4, whose guard is m(stem) > 1, with s or t before ion
LongestOfStep4(w) ==
    LET longest == LongestEnding(w, Step4Order)
    IN  IF longest = {} THEN w
        ELSE LET suffix == Step4Order[Least(longest)]
                 stem == DropLast(w, Len(suffix))
             IN  IF suffix = <<"i","o","n">>
                 THEN IF IonGoes(w) THEN stem ELSE w
                 ELSE IF ReferenceMeasure(stem) > 1 THEN stem ELSE w

\* the same for step 1a: of the rules with the longest suffix the word ends
\* with, the first that applies in the mode decides how much is cut
LongestOfStep1a(w) ==
    LET rules == {k \in LongestEnding(w, Step1aSuffixes) : Step1aRuleApplies(k, w)}
    IN  IF rules = {} THEN w ELSE DropLast(w, Step1aRules[Least(rules)].cut)

\* C26: in the tables of steps 1a, 2, 3 and 4 a suffix that has another
\* suffix of the same table as a proper suffix is tested before it (ational
\* before tional, ization before ation, ement before ment before ent, sses
\* before ss before s); hence on every word the first suffix the word ends
\* with is the longest suffix of the table the word ends with, and each of
\* these steps does what the rule of that longest suffix says.  The order of
\* the tables is looked at while the instance is idle, the steps once a
\* call has ended.
C26_LongestSuffixFirst ==
    /\ pc = "idle" =>
        /\ LongerFirst(Step1aSuffixes)
        /\ LongerFirst(SuffixColumn(Step2Mappings))
        /\ LongerFirst(SuffixColumn(Step3Mappings))
        /\ LongerFirst(Step4Order)
    /\ pc = "returned" => \A n \in 1..Len(StepEntries) :
        LET e == StepEntries[n]
        IN  LowerLettersOnly(e.in) =>
                /\ e.step = "step1a" =>
                    /\ FirstIsLongest(e.in, Step1aSuffixes)
                    /\ e.out = LongestOfStep1a(e.in)
                /\ e.step = "step2" =>
                    /\ FirstIsLongest(e.in, SuffixColumn(Step2Mappings))
                    /\ e.out = LongestRowOnly(e.in, Step2Mappings)
                /\ e.step = "step3" =>
                    /\ FirstIsLongest(e.in, SuffixColumn(Step3Mappings))
                    /\ e.out = LongestRowOnly(e.in, Step3Mappings)
                /\ e.step = "step4" =>
                    /\ FirstIsLongest(e.in, Step4Order)
                    /\ e.out = LongestOfStep4(e.in)

\* witness of C26: replacement ends in ement, ment and ent, and step 4 took
\* ement off
C26_Witness ==
    /\ pc = "step5a"
    /\ Len(EntriesOf("step4")) = 1
    /\ LET e == EntriesOf("step4")[1]
       IN  /\ e.in = <<"r","e","p","l","a","c","e","m","e","n","t">>
           /\ Cardinality({k \in 1..Len(Step4Order) : EndsWith(e.in, Step4Order[k])}) = 3
           /\ e.out = <<"r","e","p","l","a","c">>

\* a stem_word call on a non-empty word of lower-case letters a-z has ended
LowerWordEnded == StemWordEnded /\ LowerLettersOnly(last.arg.val)

\* C27: stemming never makes a word longer.  On a word of lower-case
\* letters a-z, in both dialects, each of the eight steps returns a word no
\* longer than the one it received; step 1b, which can put an e back, does
\* so only after it removed ed or ing, so that whenever it changes the word
\* the word gets shorter; every stem of the irregular tables is no longer
\* than its key; and the result of stem_word is no longer than the word.
\* The tables are looked at while the instance is idle.
C27_NeverLonger ==
    /\ pc = "idle" =>
        /\ \A key \in DOMAIN special_words : Len(special_words[key]) <= Len(key)
        /\ \A key \in DOMAIN original_special_words :
            Len(original_special_words[key]) <= Len(key)
    /\ LowerWordEnded =>
        /\ last.out.kind = "return"
        /\ Len(last.out.val) <= Len(last.arg.val)
        /\ \A n \in 1..Len(StepEntries) :
            LET e == StepEntries[n]
            IN  /\ Len(e.out) <= Len(e.in)
                /\ (e.step = "step1b" /\ e.out # e.in) =>
                    /\ Len(e.out) < Len(e.in)
                    /\ \/ EndsWith(e.in, <<"e","d">>)
                       \/ EndsWith(e.in, <<"i","n","g">>)

\* witness of C27: step 1b took ing off hoping and put an e back
C27_Witness ==
    /\ LowerWordEnded
    /\ last.arg.val = <<"h","o","p","i","n","g">>
    /\ Len(EntriesOf("step1b")) = 1
    /\ EntriesOf("step1b")[1].out = <<"h","o","p","e">>
    /\ last.out.val = <<"h","o","p","e">>

\* a stem_word call on a non-empty word of the letters A-Z and a-z has ended
AsciiWordEnded == StemWordEnded /\ AsciiLetters(last.arg.val)

\* C28: on a non-empty word of the letters A-Z and a-z, in both dialects
\* and for both values of to_lowercase, no step and no guard raises, also
\* when a guard meets an empty stem, the except branch of stem_word is not
\* taken, and the buffer after every stage, and the stem returned, is a
\* non-empty string of letters; after a step the letters are lower-case.
C28_NoFailureOnLetters ==
    AsciiWordEnded =>
        /\ fault = "none"
        /\ last.out.kind = "return"
        /\ Len(last.out.val) > 0
        /\ AsciiLetters(last.out.val)
        /\ \A n \in 1..Len(trace) :
            /\ trace[n].out # Raised
            /\ Len(trace[n].out) > 0
            /\ AsciiLetters(trace[n].out)
        /\ \A n \in 1..Len(StepEntries) : LowerLettersOnly(StepEntries[n].out)

\* witness of C28: the stem of ING is empty when step 1b asks whether it has
\* a vowel; all eight steps ran and ING came back
C28_Witness ==
    /\ AsciiWordEnded
    /\ last.arg.val = <<"I","N","G">>
    /\ ~to_lowercase
    /\ Len(StepEntries) = 8
    /\ EntriesOf("step1b")[1].in = <<"i","n","g">>
    /\ fault = "none"
    /\ last.out.val = <<"I","N","G">>

\* the instance with the other value of to_lowercase
OtherCasing == [Self EXCEPT !.to_lowercase = ~to_lowercase]

\* C29: case preservation changes the case of letters and nothing else.  On
\* a word of the letters A-Z and a-z in any casing, in both dialects, the
\* result of stem_word with to_lowercase = False, lowercased, is the result
\* of stem_word with to_lowercase = True.  The call that has ended is
\* compared with stem_word on the same word under the other setting.
C29_CaseOnly ==
    AsciiWordEnded =>
        LET other == StemWord(OtherCasing, last.arg)
        IN  /\ last.out.kind = "return"
            /\ other.kind = "return"
            /\ to_lowercase => last.out.val = Lower(other.val)
            /\ ~to_lowercase => Lower(last.out.val) = other.val
            /\ Len(last.out.val) = Len(other.val)

\* witness of C29: HaPpIlY stemmed with the casing kept; its last letter is
\* the I of the stem in the case of the Y
C29_Witness ==
    /\ AsciiWordEnded
    /\ ~to_lowercase
    /\ last.arg.val = <<"H","a","P","p","I","l","Y">>
    /\ last.out.val = <<"H","a","P","p","I","l","I">>
    /\ StemWord(OtherCasing, last.arg).val = <<"h","a","p","p","i","l","i">>

====
